---- MODULE Spec2Model ----
(***************************************************************************)
(* Model of the MIM-Runbook content-generation core                        *)
(* (src/src/servers/runbook-generator/src/runbook-generator.ts).           *)
(*                                                                         *)
(* generateRunbook is modelled as a sequence of steps of one call (role    *)
(* resolution, email templates, the eight section builders, the escalation *)
(* ledger, the return).  Every call has its own frame of locals, as the    *)
(* closure of the TypeScript function has.                                 *)
(*                                                                         *)
(* Strings on which the code works character by character (incident       *)
(* number, category, stakeholder role) are sequences of one-character      *)
(* strings; strings that are only copied or compared are TLA+ strings.     *)
(* Static prose of a block is abstracted to a template tag (tpl); every    *)
(* interpolated value is kept as a field of the block.                     *)
(***************************************************************************)
EXTENDS Integers, Sequences, FiniteSets, TLC

\* ------------------------------------------------------------------------
\* Bounds of the model
\* ------------------------------------------------------------------------
MaxStakeholders == 3

MaxVendors == 1

\* the members of the largest ServiceNow group
MaxMembers == 7

\* ------------------------------------------------------------------------
\* JavaScript values and string primitives
\* ------------------------------------------------------------------------

\* the value of an optional field that is absent
Undefined == "<undefined>"

\* JavaScript truthiness of an optional string (absent and "" are falsy)
Truthy(x) == x # Undefined /\ x # ""

\* a ?? b
Coalesce(a, b) == IF a = Undefined THEN b ELSE a

\* a || b
OrElse(a, b) == IF Truthy(a) THEN a ELSE b

UpperToLower ==
  [ch \in {"A","B","C","D","E","F","G","H","I","J","K","L","M",
           "N","O","P","Q","R","S","T","U","V","W","X","Y","Z"} |->
     CASE ch = "A" -> "a" [] ch = "B" -> "b" [] ch = "C" -> "c" [] ch = "D" -> "d"
       [] ch = "E" -> "e" [] ch = "F" -> "f" [] ch = "G" -> "g" [] ch = "H" -> "h"
       [] ch = "I" -> "i" [] ch = "J" -> "j" [] ch = "K" -> "k" [] ch = "L" -> "l"
       [] ch = "M" -> "m" [] ch = "N" -> "n" [] ch = "O" -> "o" [] ch = "P" -> "p"
       [] ch = "Q" -> "q" [] ch = "R" -> "r" [] ch = "S" -> "s" [] ch = "T" -> "t"
       [] ch = "U" -> "u" [] ch = "V" -> "v" [] ch = "W" -> "w" [] ch = "X" -> "x"
       [] ch = "Y" -> "y" [] ch = "Z" -> "z"]

\* String.prototype.toLowerCase on a character sequence
toLowerCase(s) ==
  [i \in 1..Len(s) |-> IF s[i] \in DOMAIN UpperToLower THEN UpperToLower[s[i]] ELSE s[i]]

\* String.prototype.includes
includes(hay, needle) ==
  \E i \in 0..(Len(hay) - Len(needle)) :
     SubSeq(hay, i + 1, i + Len(needle)) = needle

\* the characters the class [a-z0-9] matches
LowerAlnum ==
  {"a","b","c","d","e","f","g","h","i","j","k","l","m",
   "n","o","p","q","r","s","t","u","v","w","x","y","z",
   "0","1","2","3","4","5","6","7","8","9"}

IsLowerAlnum(ch) == ch \in LowerAlnum

\* s.replace(/[^a-z0-9]/g, "")
stripNonAlnum(s) == SelectSeq(s, IsLowerAlnum)

DigitChar == <<"0","1","2","3","4","5","6","7","8","9">>

\* String(n) for a non-negative integer
RECURSIVE String(_)
String(n) ==
  IF n < 10 THEN DigitChar[n + 1]
  ELSE String(n \div 10) \o DigitChar[(n % 10) + 1]

\* String.prototype.padStart
RECURSIVE padStart(_, _, _)
padStart(s, width, fill) ==
  IF Len(s) >= width THEN s ELSE padStart(fill \o s, width, fill)

\* Array.prototype.filter position list: the indices of xs that satisfy Test
FilterIdx(xs, Test(_)) ==
  SelectSeq([i \in 1..Len(xs) |-> i], LAMBDA i : Test(xs[i]))

\* Array.prototype.map over a sequence
Map(xs, F(_)) == [i \in 1..Len(xs) |-> F(xs[i])]

\* Array.prototype.find as a position: index of the first element that
\* satisfies Test, 0 (null / undefined) when there is none
FindIdx(xs, Test(_)) ==
  IF \E i \in 1..Len(xs) : Test(xs[i])
  THEN CHOOSE i \in 1..Len(xs) : Test(xs[i]) /\ \A j \in 1..(i - 1) : ~Test(xs[j])
  ELSE 0

Range(xs) == {xs[i] : i \in 1..Len(xs)}

\* Array.prototype.flat: the elements of the element sequences, in order
RECURSIVE Flatten(_)
Flatten(xss) == IF xss = <<>> THEN <<>> ELSE Head(xss) \o Flatten(Tail(xss))

\* ------------------------------------------------------------------------
\* Date (the part of the JavaScript Date API that formatTimestamp uses)
\* ------------------------------------------------------------------------

\* new Date(iso): the time value of the strings the model uses; any other
\* string gives an Invalid Date
NewDate(iso) ==
  CASE iso = "2026-02-26T14:05:00Z" ->
         [valid |-> TRUE, date |-> "2026-02-26", time |-> "14:05:00", ms |-> "000"]
    [] iso = "2026-02-26T13:58:30.250Z" ->
         [valid |-> TRUE, date |-> "2026-02-26", time |-> "13:58:30", ms |-> "250"]
    [] OTHER ->
         [valid |-> FALSE, date |-> "", time |-> "", ms |-> ""]

\* Date.prototype.toISOString: throws a RangeError on an Invalid Date
toISOString(d) ==
  IF d.valid
  THEN [threw |-> FALSE, val |-> d.date \o "T" \o d.time \o "." \o d.ms \o "Z"]
  ELSE [threw |-> TRUE, val |-> "RangeError: Invalid time value"]

\* formatTimestamp without its try/catch
formatTimestamp_nocatch(iso) ==
  LET d == NewDate(iso)
      r == toISOString(d)
  IN  IF r.threw THEN r
      ELSE [threw |-> FALSE, val |-> d.date \o " " \o d.time \o " UTC"]

\* formatTimestamp: .replace("T", " ").replace(/\.\d+Z$/, " UTC") of the ISO
\* string (date, "T", time, ".", ms, "Z"); the catch returns the input
formatTimestamp(iso) ==
  LET d == NewDate(iso)
      r == toISOString(d)
  IN  IF r.threw THEN [threw |-> FALSE, val |-> iso]
      ELSE [threw |-> FALSE, val |-> d.date \o " " \o d.time \o " UTC"]

\* ------------------------------------------------------------------------
\* Inputs: the validated records generateRunbook receives
\* ------------------------------------------------------------------------
cat_Database == <<"D","a","t","a","b","a","s","e">>

cat_DatabaseOutage == <<"d","a","t","a","b","a","s","e"," ","o","u","t","a","g","e">>

cat_DATABASE == <<"D","A","T","A","B","A","S","E">>

cat_UnknownWidget == <<"U","n","k","n","o","w","n","-","W","i","d","g","e","t">>

cat_Network == <<"N","e","t","w","o","r","k">>

cat_Application == <<"A","p","p","l","i","c","a","t","i","o","n">>

cat_CloudInfra == <<"C","l","o","u","d","/","I","n","f","r","a">>

cat_Infrastructure == <<"I","n","f","r","a","s","t","r","u","c","t","u","r","e">>

cat_Security == <<"S","e","c","u","r","i","t","y">>

cat_Other == <<"O","t","h","e","r">>

cat_NetworkDatabase == <<"N","e","t","w","o","r","k"," ","D","a","t","a","b","a","s","e">>

cat_ApplicationSecurity == <<"A","p","p","l","i","c","a","t","i","o","n"," ","S","e","c","u","r","i","t","y">>

cat_CloudSecurity == <<"c","l","o","u","d"," ","s","e","c","u","r","i","t","y">>

cat_InfraNetwork == <<"I","n","f","r","a"," ","N","e","t","w","o","r","k">>

num_INC0001 == <<"I","N","C","0","0","0","1">>

num_INC_0042 == <<"I","N","C","-","0","0","4","2">>

num_prb7 == <<"p","r","b","_","7"," ","I","n","c">>

role_IC == <<"I","n","c","i","d","e","n","t"," ","C","o","m","m","a","n","d","e","r">>

role_TLPrimary == <<"T","e","c","h","n","i","c","a","l"," ","L","e","a","d"," ","(","P","r","i","m","a","r","y",")">>

role_TLSecondary == <<"T","e","c","h","n","i","c","a","l"," ","L","e","a","d"," ","(","S","e","c","o","n","d","a","r","y",")">>

role_comms == <<"c","o","m","m","u","n","i","c","a","t","i","o","n","s"," ","l","e","a","d">>

role_Exec == <<"E","x","e","c","u","t","i","v","e"," ","S","p","o","n","s","o","r">>

role_OnCall == <<"O","n","-","C","a","l","l"," ","E","n","g","i","n","e","e","r">>

role_DeputyIC == <<"D","e","p","u","t","y"," ","I","n","c","i","d","e","n","t"," ","C","o","m","m","a","n","d","e","r">>

Person(name, role, team, level, notify, url, dialIn) ==
  [name |-> name, role |-> role, title |-> "Engineer", team |-> team,
   email |-> name \o "@example.com", phone |-> "phone:" \o name,
   slack |-> "@" \o name, escalation_level |-> level,
   notify_immediately |-> notify, bridge_url |-> url, bridge_phone |-> dialIn]

Alice == Person("alice", role_IC, "SRE", 1, TRUE, Undefined, "dial:alice")

Bob == Person("bob", role_TLPrimary, "Platform", 1, TRUE, Undefined, Undefined)

Carol == Person("carol", role_TLSecondary, "DBA", 2, TRUE, "https://zoom.example/carol", "dial:carol")

Dan == Person("dan", role_comms, "Comms", 2, FALSE, "", Undefined)

Erin == Person("erin", role_Exec, "Exec", 3, TRUE, Undefined, Undefined)

Frank == Person("frank", role_OnCall, "NOC", 3, FALSE, "https://zoom.example/frank", Undefined)

\* an incident commander whose bridge_url is present and empty
Gina == Person("gina", role_DeputyIC, "SRE", 2, FALSE, "", "dial:gina")

People == {Alice, Bob, Carol, Dan, Erin, Frank}

\* the sequences of at most n distinct elements of P
InjectiveSeqs(P, n) ==
  UNION {{s \in [1..k -> P] : \A i, j \in 1..k : i # j => s[i] # s[j]} : k \in 0..n}

StakeholderLists == InjectiveSeqs(People, MaxStakeholders)

Vendor(i) ==
  [vendor |-> "vendor" \o String(i), account_number |-> "acct" \o String(i),
   support_url |-> "https://support.example/" \o String(i),
   phone |-> "vphone" \o String(i), severity_mapping |-> "Severity 1"]

VendorLists == {[i \in 1..k |-> Vendor(i)] : k \in 0..MaxVendors}

Inc(number, category, region, opened, detected, description) ==
  [number |-> number, title |-> "Portal down", severity |-> "1 - Critical",
   priority |-> "1 - Critical", state |-> "In Progress", category |-> category,
   subcategory |-> "Outage", affected_service |-> "Customer Portal",
   affected_ci |-> "prod-node-01", environment |-> "Production", region |-> region,
   business_impact |-> "Checkout unavailable", opened_at |-> opened,
   detected_at |-> detected, assigned_to |-> "oncall",
   assignment_group |-> "Platform Ops", caller_id |-> "monitoring",
   short_description |-> "Portal down", description |-> description,
   change_related |-> FALSE, related_incident |-> ""]

TsOpened == "2026-02-26T14:05:00Z"

TsDetected == "2026-02-26T13:58:30.250Z"

TsUnparseable == "yesterday afternoon"

Incidents ==
  { Inc(num_INC0001, cat_Database, "us-east-1", TsOpened, TsDetected, "Pool errors"),
    Inc(num_INC0001, cat_DatabaseOutage, Undefined, TsUnparseable, Undefined, ""),
    Inc(num_INC_0042, cat_DATABASE, Undefined, TsOpened, TsUnparseable, "Pool errors"),
    Inc(num_INC0001, cat_UnknownWidget, "us-east-1", TsOpened, Undefined, ""),
    Inc(num_INC_0042, cat_Network, Undefined, TsOpened, Undefined, "Packet loss"),
    Inc(num_INC0001, cat_Application, "us-east-1", TsUnparseable, TsDetected, ""),
    Inc(num_INC0001, cat_CloudInfra, Undefined, TsOpened, TsDetected, "AZ outage"),
    Inc(num_INC0001, cat_Infrastructure, "us-east-1", TsOpened, Undefined, ""),
    Inc(num_INC0001, cat_Security, "us-east-1", TsOpened, TsDetected, "Breach"),
    Inc(num_prb7, cat_Security, Undefined, TsUnparseable, Undefined, ""),
    Inc(num_prb7, cat_Other, Undefined, TsOpened, Undefined, "Unknown"),
    Inc(num_INC0001, cat_NetworkDatabase, Undefined, TsOpened, Undefined, ""),
    Inc(num_INC0001, cat_ApplicationSecurity, Undefined, TsOpened, Undefined, ""),
    Inc(num_INC0001, cat_CloudSecurity, Undefined, TsOpened, Undefined, ""),
    Inc(num_INC0001, cat_InfraNetwork, Undefined, TsOpened, Undefined, "") }

\* ------------------------------------------------------------------------
\* Role resolver (generateRunbook, lines 22-32; findByRole)
\* ------------------------------------------------------------------------
kw_IncidentCommander == <<"I","n","c","i","d","e","n","t"," ","C","o","m","m","a","n","d","e","r">>

kw_TechnicalLead == <<"T","e","c","h","n","i","c","a","l"," ","L","e","a","d">>

kw_CommunicationsLead == <<"C","o","m","m","u","n","i","c","a","t","i","o","n","s"," ","L","e","a","d">>

kw_CustomerImpact == <<"C","u","s","t","o","m","e","r"," ","I","m","p","a","c","t">>

kw_ExecutiveSponsor == <<"E","x","e","c","u","t","i","v","e"," ","S","p","o","n","s","o","r">>

\* findByRole that compares the role without lower-casing it
findByRole_caseSensitive(stakeholders, roleKeyword) ==
  FindIdx(stakeholders, LAMBDA s : includes(s.role, roleKeyword))

\* findByRole that keeps the last match instead of the first
findByRole_last(stakeholders, roleKeyword) ==
  LET hits == FilterIdx(stakeholders,
                LAMBDA s : includes(toLowerCase(s.role), toLowerCase(roleKeyword)))
  IN  IF hits = <<>> THEN 0 ELSE hits[Len(hits)]

\* findByRole: a stakeholder is returned as its position in the list, null as 0
findByRole(stakeholders, roleKeyword) ==
  FindIdx(stakeholders,
          LAMBDA s : includes(toLowerCase(s.role), toLowerCase(roleKeyword)))

\* x?.field ?? fallback, for a stakeholder reference x (a position or 0)
OptField(stakeholders, x, field, fallback) ==
  IF x = 0 THEN fallback ELSE Coalesce(stakeholders[x][field], fallback)

\* stakeholders.find((s) => s.bridge_url) ?? ic
resolveBridgeHolder(stakeholders, ic) ==
  LET found == FindIdx(stakeholders, LAMBDA s : Truthy(s.bridge_url))
  IN  IF found = 0 THEN ic ELSE found

hash_inc == <<"#","i","n","c">>

\* the channel name without the lower-casing of the incident number
deriveSlackChannel_noLower(number) == hash_inc \o stripNonAlnum(number)

\* `#inc${incident.number.toLowerCase().replace(/[^a-z0-9]/g, "")}`
deriveSlackChannel(number) == hash_inc \o stripNonAlnum(toLowerCase(number))

\* Array.prototype.join
RECURSIVE join(_, _)
join(xs, sep) ==
  IF xs = <<>> THEN ""
  ELSE IF Len(xs) = 1 THEN xs[1]
  ELSE xs[1] \o sep \o join(Tail(xs), sep)

emailOf(s) == s.email

nameOf(s) == s.name

slackOf(s) == s.slack

\* ------------------------------------------------------------------------
\* Email templates (buildEmailTemplates)
\* ------------------------------------------------------------------------
isImmediate(s) == s.notify_immediately \/ s.escalation_level = 1

isLevel1(s) == s.escalation_level = 1

isLevel2(s) == s.escalation_level = 2

isLevel3(s) == s.escalation_level = 3

\* the To list of Templates 1 and 2 without the notify_immediately clause
toImmediateOf_levelOnly(stakeholders) ==
  Map(SelectSeq(stakeholders, isLevel1), emailOf)

toImmediateOf(stakeholders) == Map(SelectSeq(stakeholders, isImmediate), emailOf)

level2EmailsOf(stakeholders) == Map(SelectSeq(stakeholders, isLevel2), emailOf)

level3EmailsOf(stakeholders) == Map(SelectSeq(stakeholders, isLevel3), emailOf)

toAllOf(stakeholders) == Map(stakeholders, emailOf)

buildEmailTemplates(incident, stakeholders, ic, commsLead, zoomUrl, slackChannel) ==
  LET toImmediate == toImmediateOf(stakeholders)
      ccLevel2    == level2EmailsOf(stakeholders)
      toLevel2    == level2EmailsOf(stakeholders)
      ccLevel3    == level3EmailsOf(stakeholders)
      toAll       == toAllOf(stakeholders)
      level2      == SelectSeq(stakeholders, isLevel2)
      detectedAt  == Coalesce(incident.detected_at, incident.opened_at)
      ts          == formatTimestamp(detectedAt)
      icName      == OptField(stakeholders, ic, "name", "[INCIDENT COMMANDER]")
      sigComms    == OptField(stakeholders, commsLead, "name", "Incident Response Team")
      sigCommsIc  == OptField(stakeholders, commsLead, "name",
                       OptField(stakeholders, ic, "name", "Incident Response Team"))
      region      == IF Truthy(incident.region) THEN incident.region ELSE ""
  IN  [threw |-> ts.threw,
       templates |-> <<
         [phase |-> "Initial Incident Notification",
          timing |-> "T+0 (send immediately upon declaring Sev1)",
          to |-> toImmediate, cc |-> ccLevel2, colorBand |-> "red",
          subject |-> [tpl |-> "[SEV1 - ACTIVE]", number |-> incident.number],
          body |-> [tpl |-> "email.1", number |-> incident.number, region |-> region,
                    detectedAt |-> ts.val, icName |-> icName,
                    icPhone |-> OptField(stakeholders, ic, "phone", "[PHONE]"),
                    zoomUrl |-> zoomUrl, slackChannel |-> slackChannel,
                    signature |-> sigComms]],
         [phase |-> "War Room / Bridge Established",
          timing |-> "T+5 (once bridge call is open and team is assembling)",
          to |-> toImmediate, cc |-> ccLevel2, colorBand |-> "red",
          subject |-> [tpl |-> "[SEV1 - WAR ROOM OPEN]", number |-> incident.number],
          body |-> [tpl |-> "email.2", number |-> incident.number,
                    zoomUrl |-> zoomUrl,
                    dialIn |-> OptField(stakeholders, ic, "bridge_phone",
                                        "[DIAL-IN NUMBER + PIN]"),
                    slackChannel |-> slackChannel, icName |-> icName,
                    signature |-> sigCommsIc]],
         [phase |-> "30-Minute Status Update",
          timing |-> "T+30 (and every 30 minutes thereafter until resolved)",
          to |-> toImmediate \o toLevel2, cc |-> ccLevel3, colorBand |-> "amber",
          subject |-> [tpl |-> "[SEV1 - UPDATE]", number |-> incident.number],
          body |-> [tpl |-> "email.3", number |-> incident.number,
                    zoomUrl |-> zoomUrl, slackChannel |-> slackChannel,
                    signature |-> sigComms]],
         [phase |-> "Mitigation In Progress",
          timing |-> "T+[X] (send when a containment action is being executed)",
          to |-> toImmediate \o toLevel2, cc |-> ccLevel3, colorBand |-> "amber",
          subject |-> [tpl |-> "[SEV1 - MITIGATION ACTIVE]", number |-> incident.number],
          body |-> [tpl |-> "email.4", number |-> incident.number,
                    escalationTo |-> OrElse(join(Map(level2, nameOf), ", "),
                                            "[LEVEL 2 CONTACTS]"),
                    zoomUrl |-> zoomUrl, slackChannel |-> slackChannel,
                    signature |-> sigCommsIc]],
         [phase |-> "Service Restored",
          timing |-> "T+[X] (send within 10 minutes of confirming service is restored)",
          to |-> toAll, cc |-> <<>>, colorBand |-> "green",
          subject |-> [tpl |-> "[SEV1 - RESOLVED]", number |-> incident.number],
          body |-> [tpl |-> "email.5", number |-> incident.number,
                    openedAt |-> ts.val,
                    thanks |-> OptField(stakeholders, ic, "name", "the Incident Commander"),
                    signature |-> sigCommsIc]],
         [phase |-> "Incident Closed + PIR Invitation",
          timing |-> "T+24h (within 24 hours of resolution, once PIR is scheduled)",
          to |-> toImmediate \o toLevel2, cc |-> ccLevel3, colorBand |-> "navy",
          subject |-> [tpl |-> "[CLOSED]", number |-> incident.number],
          body |-> [tpl |-> "email.6", number |-> incident.number, icName |-> icName,
                    icEmail |-> OptField(stakeholders, ic, "email", "[IC_EMAIL]"),
                    signature |-> sigCommsIc]] >>]

\* ------------------------------------------------------------------------
\* Action ledger (addAction) and escalation ledger (buildEscalationEntries)
\* ------------------------------------------------------------------------

\* an action id whose number is not padded
actionId_unpadded(n) == "ACT-" \o String(n)

\* `ACT-${String(actionCounter).padStart(3, "0")}`
actionId(n) == "ACT-" \o padStart(String(n), 3, "0")

\* addAction that puts the new item at the head of the ledger
addAction_unshift(L, phase, action, owner, team, priority, targetBy) ==
  [actionItems |->
     <<[id |-> actionId(L.actionCounter), phase |-> phase, action |-> action,
        owner |-> owner, team |-> team, priority |-> priority,
        status |-> "Open", targetBy |-> targetBy, notes |-> ""]>>
     \o L.actionItems,
   actionCounter |-> L.actionCounter + 1]

\* addAction on the ledger L = [actionItems, actionCounter] of one call:
\* push the item, then post-increment the counter
addAction(L, phase, action, owner, team, priority, targetBy) ==
  [actionItems |->
     Append(L.actionItems,
            [id |-> actionId(L.actionCounter), phase |-> phase, action |-> action,
             owner |-> owner, team |-> team, priority |-> priority,
             status |-> "Open", targetBy |-> targetBy, notes |-> ""]),
   actionCounter |-> L.actionCounter + 1]

\* an escalation method that ignores notify_immediately
escalationMethod_constant(s) == "Slack + Email"

escalationMethod(s) ==
  IF s.notify_immediately THEN "Phone + Slack + Email" ELSE "Slack + Email"

buildEscalationEntries(stakeholders) ==
  [i \in 1..Len(stakeholders) |->
     [id |-> "ESC-" \o padStart(String(i), 3, "0"),
      contactName |-> stakeholders[i].name,
      role |-> stakeholders[i].role,
      method |-> escalationMethod(stakeholders[i])]]

\* ------------------------------------------------------------------------
\* Section builders 1-3
\* ------------------------------------------------------------------------
buildSection1(incident) ==
  LET opened   == formatTimestamp(incident.opened_at)
      detected == formatTimestamp(Coalesce(incident.detected_at, incident.opened_at))
      base ==
        << [type |-> "table",
            rows |-> <<
              <<"Field", "Value">>,
              <<"Incident Number", incident.number>>,
              <<"Title", incident.title>>,
              <<"Severity", incident.severity>>,
              <<"Priority", incident.priority>>,
              <<"State", incident.state>>,
              <<"Affected Service", incident.affected_service>>,
              <<"Affected CI / Resource", incident.affected_ci>>,
              <<"Environment",
                incident.environment \o
                  (IF Truthy(incident.region) THEN " (" \o incident.region \o ")" ELSE "")>>,
              <<"Category", <<incident.category, " / ", incident.subcategory>> >>,
              <<"Assigned To", incident.assigned_to>>,
              <<"Assignment Group", incident.assignment_group>>,
              <<"Reported By", incident.caller_id>>,
              <<"Opened At", opened.val>>,
              <<"Detected At", detected.val>>,
              <<"Change Related",
                IF incident.change_related THEN "YES - investigate recent changes" ELSE "No">>,
              <<"Related Incident", OrElse(incident.related_incident, "None")>> >>],
           [type |-> "paragraph", text |-> [tpl |-> "**Business Impact**"]],
           [type |-> "paragraph", text |-> [tpl |-> incident.business_impact]],
           [type |-> "alert_box", alertLevel |-> "critical",
            text |-> [tpl |-> "s1.severity", severity |-> incident.severity]] >>
      described ==
        IF Truthy(incident.description)
        THEN << [type |-> "paragraph", text |-> [tpl |-> "**Incident Description**"]],
                [type |-> "paragraph", text |-> [tpl |-> incident.description]] >>
        ELSE << >>
  IN  [threw |-> opened.threw \/ detected.threw,
       section |-> [sectionNumber |-> 1, title |-> "Incident Summary Banner",
                    blocks |-> base \o described]]

\* getStakeholdersByLevel
getStakeholdersByLevel(level, immediateOnly, stakeholders) ==
  SelectSeq(stakeholders,
            LAMBDA s : s.escalation_level = level /\ (~immediateOnly \/ s.notify_immediately))

\* the literal Section 2 stakeholder table
section2PlaceholderRows ==
  << <<"Name", "Role", "Slack", "Phone">>,
     <<"[IC_NAME]", "Incident Commander", "[IC_SLACK]", "[IC_PHONE]">>,
     <<"[TECH_LEAD_NAME]", "Technical Lead", "[TECH_SLACK]", "[TECH_PHONE]">>,
     <<"[COMMS_LEAD_NAME]", "Communications Lead", "[COMMS_SLACK]", "[COMMS_PHONE]">> >>

\* a Section 2 table filled with the immediate-notify stakeholders
section2Table_resolved(stakeholders) ==
  [type |-> "table",
   rows |-> << <<"Name", "Role", "Slack", "Phone">> >>
            \o Map(SelectSeq(stakeholders, isImmediate),
                   LAMBDA s : <<s.name, s.role, s.slack, s.phone>>)]

\* the table block buildSection2 pushes: the stakeholders are not read
section2Table(stakeholders) == [type |-> "table", rows |-> section2PlaceholderRows]

buildSection2(incident, stakeholders, ic, zoomUrl, slackChannel, L) ==
  LET owner == OptField(stakeholders, ic, "name", "On-Call Engineer")
      team  == OptField(stakeholders, ic, "team", "Operations")
      L1 == addAction(L, "Triage",
              <<"Confirm alert is genuine - check ", incident.affected_ci, " directly">>,
              owner, team, "P1", "T+2")
      L2 == addAction(L1, "Triage",
              <<"Assess blast radius - identify all affected services and users">>,
              owner, team, "P1", "T+3")
      L3 == addAction(L2, "Triage", <<"Open Zoom bridge and Slack incident channel">>,
              owner, team, "P1", "T+5")
      L4 == addAction(L3, "Triage", <<"Page all immediate-notify stakeholders">>,
              owner, team, "P1", "T+5")
      immediateStakeholders == getStakeholdersByLevel(1, TRUE, <<>>)
      blocks ==
        << [type |-> "alert_box", alertLevel |-> "warning", text |-> [tpl |-> "s2.intro"]],
           [type |-> "numbered_step", stepNumber |-> 1,
            text |-> [tpl |-> "s2.confirm", ci |-> incident.affected_ci,
                      number |-> incident.number]],
           [type |-> "numbered_step", stepNumber |-> 2,
            text |-> [tpl |-> "s2.dashboard", service |-> incident.affected_service]],
           [type |-> "numbered_step", stepNumber |-> 3,
            text |-> [tpl |-> "s2.blast", ci |-> incident.affected_ci,
                      region |-> Coalesce(incident.region, "check all regions")]],
           [type |-> "numbered_step", stepNumber |-> 4,
            text |-> [tpl |-> "s2.slack", channel |-> slackChannel,
                      number |-> incident.number, bridge |-> zoomUrl,
                      icName |-> OptField(stakeholders, ic, "name", "[Incident Commander]"),
                      icSlack |-> OptField(stakeholders, ic, "slack", "[slack handle]")]],
           [type |-> "numbered_step", stepNumber |-> 5,
            text |-> [tpl |-> "s2.bridge", bridgeUrl |-> zoomUrl,
                      dialIn |-> OptField(stakeholders, ic, "bridge_phone",
                                          "[see stakeholders list]"),
                      number |-> incident.number,
                      icLine |-> IF ic # 0 /\ Truthy(stakeholders[ic].name)
                                 THEN stakeholders[ic].name \o " is the Incident Commander."
                                 ELSE "We need to assign an Incident Commander now."]],
           [type |-> "numbered_step", stepNumber |-> 6, text |-> [tpl |-> "s2.page"]],
           section2Table(stakeholders) >>
  IN  [ledger |-> L4,
       section |-> [sectionNumber |-> 2,
                    title |-> "Immediate Triage Checklist (First 5 Minutes)",
                    blocks |-> blocks]]

re_inc == <<"i","n","c">>

\* s.replace(/inc/, "#inc"): the first occurrence of "inc" only
replaceFirstInc(s) ==
  IF includes(s, re_inc)
  THEN LET at == CHOOSE i \in 1..Len(s) :
                   /\ i + 2 <= Len(s)
                   /\ SubSeq(s, i, i + 2) = re_inc
                   /\ \A j \in 1..(i - 1) : SubSeq(s, j, j + 2) # re_inc
       IN  SubSeq(s, 1, at - 1) \o hash_inc \o SubSeq(s, at + 3, Len(s))
  ELSE s

notifyWhen(s) ==
  IF s.escalation_level = 1 THEN "Immediately (T+0)"
  ELSE IF s.escalation_level = 2 THEN "T+30 or if not resolved"
  ELSE "T+60 or if escalated"

roleMapRow(s) == <<s.name, s.role, notifyWhen(s), escalationMethod(s), s.email>>

emailTemplateBlock(t) == [type |-> "email_template", emailTemplate |-> t]

buildSection3(incident, stakeholders, ic, commsLead, emailTemplates, L) ==
  LET owner == OptField(stakeholders, commsLead, "name", "Comms Lead")
      team  == OptField(stakeholders, commsLead, "team", "Communications")
      L1 == addAction(L, "Comms",
              <<"Send Initial Incident Notification email (Template 1)">>,
              owner, team, "P1", "T+5")
      L2 == addAction(L1, "Comms", <<"Post Slack message to incident channel">>,
              owner, team, "P1", "T+5")
      L3 == addAction(L2, "Comms", <<"Send War Room Established email (Template 2)">>,
              owner, team, "P1", "T+10")
      L4 == addAction(L3, "Comms", <<"Send T+30 Status Update email (Template 3)">>,
              owner, team, "P1", "T+30")
      blocks ==
        << [type |-> "paragraph",
            text |-> [tpl |-> "s3.owner", name |-> owner,
                      slack |-> OptField(stakeholders, commsLead, "slack",
                                         "assign a comms lead now")]],
           [type |-> "paragraph", text |-> [tpl |-> "s3.cadence"]],
           [type |-> "heading", level |-> 2, text |-> [tpl |-> "Stakeholder Role Map"]],
           [type |-> "table",
            rows |-> << <<"Name", "Role", "Notify When", "Method", "Email">> >>
                     \o Map(stakeholders, roleMapRow)],
           [type |-> "heading", level |-> 2, text |-> [tpl |-> "Slack Communication Steps"]],
           [type |-> "numbered_step", stepNumber |-> 1,
            text |-> [tpl |-> "s3.create",
                      channel |-> replaceFirstInc(toLowerCase(incident.number)),
                      number |-> incident.number]],
           [type |-> "numbered_step", stepNumber |-> 2,
            text |-> [tpl |-> "s3.invite",
                      handles |-> join(Map(SelectSeq(stakeholders, isLevel1), slackOf), " ")]],
           [type |-> "numbered_step", stepNumber |-> 3, text |-> [tpl |-> "s3.pin"]],
           [type |-> "numbered_step", stepNumber |-> 4, text |-> [tpl |-> "s3.cadence30"]],
           [type |-> "heading", level |-> 2, text |-> [tpl |-> "Email Templates"]],
           [type |-> "paragraph", text |-> [tpl |-> "s3.templates"]] >>
  IN  [ledger |-> L4,
       section |-> [sectionNumber |-> 3, title |-> "Communication Plan",
                    blocks |-> blocks \o Map(emailTemplates, emailTemplateBlock)]]

\* ------------------------------------------------------------------------
\* Category router and diagnosis generators (buildSection4)
\* ------------------------------------------------------------------------
kw_database == <<"d","a","t","a","b","a","s","e">>

kw_network == <<"n","e","t","w","o","r","k">>

kw_application == <<"a","p","p","l","i","c","a","t","i","o","n">>

kw_cloud == <<"c","l","o","u","d">>

kw_infra == <<"i","n","f","r","a">>

kw_security == <<"s","e","c","u","r","i","t","y">>

\* a numbered_step block; s5refs lists the "Section 5, Step N" references its
\* text contains
Step(n, tpl, incident, s5refs) ==
  [type |-> "numbered_step", stepNumber |-> n,
   text |-> [tpl |-> tpl, ci |-> incident.affected_ci,
             service |-> incident.affected_service, s5refs |-> s5refs]]

\* a decision_tree branch
Branch(condition, action) == [condition |-> condition, action |-> action]

getDatabaseDiagnosisSteps(incident) ==
  << Step(1, "db.diag.cluster-health", incident, <<>>),
     Step(2, "db.diag.error-logs", incident, <<>>),
     Step(3, "db.diag.connection-pool", incident, <<3>>),
     Step(4, "db.diag.replication-lag", incident, <<>>),
     Step(5, "db.diag.host-resources", incident, <<>>),
     Step(6, "db.diag.recent-changes", incident, <<>>),
     [type |-> "decision_tree",
      condition |-> "After completing all diagnosis steps, which best describes your findings?",
      branches |-> <<
        Branch("DB nodes are offline / cluster split-brain",
               "Go to Section 5, Step 1: Cluster restart / failover"),
        Branch("Connection pool exhausted, DB nodes healthy",
               "Go to Section 5, Step 2: Connection pool flush and restart app tier"),
        Branch("Blocking sessions preventing progress",
               "Go to Section 5, Step 3: Kill blocking sessions"),
        Branch("Recent deployment suspected",
               "Go to Section 5, Step 4: Rollback deployment"),
        Branch("Disk / memory / CPU exhaustion",
               "Go to Section 5, Step 5: Resource remediation"),
        Branch("None of the above / unclear",
               "Escalate: page vendor support (see Section 6) and senior DBA now") >>] >>

getNetworkDiagnosisSteps(incident) ==
  << Step(1, "net.diag.reachability", incident, <<>>),
     Step(2, "net.diag.routing-bgp", incident, <<>>),
     Step(3, "net.diag.firewall", incident, <<>>),
     Step(4, "net.diag.cdn-lb", incident, <<>>),
     [type |-> "decision_tree",
      condition |-> "What did network diagnosis reveal?",
      branches |-> <<
        Branch("BGP peer down or routing change",
               "Section 5, Step 1: Revert routing change or failover to backup link"),
        Branch("Firewall rule blocking traffic",
               "Section 5, Step 2: Revert firewall rule change"),
        Branch("DNS misconfiguration",
               "Section 5, Step 3: Fix DNS record and force propagation"),
        Branch("CDN/Load balancer issue",
               "Section 5, Step 4: Bypass CDN or failover load balancer"),
        Branch("Unresolved - no root cause found",
               "Escalate to Senior Network Engineer and vendor (Section 6)") >>] >>

getApplicationDiagnosisSteps(incident) ==
  << Step(1, "app.diag.apm", incident, <<>>),
     Step(2, "app.diag.error-logs", incident, <<>>),
     Step(3, "app.diag.deployments", incident, <<1>>),
     Step(4, "app.diag.flags-config", incident, <<2>>),
     [type |-> "decision_tree",
      condition |-> "Application diagnosis outcome?",
      branches |-> <<
        Branch("Recent deployment identified", "Section 5, Step 1: Rollback deployment"),
        Branch("Feature flag / config change", "Section 5, Step 2: Revert flag or config"),
        Branch("Memory leak / OOM",
               "Section 5, Step 3: Restart pods/instances, then investigate heap dumps"),
        Branch("Upstream dependency failure (DB, API, cache)",
               "Investigate the upstream dependency: restart diagnosis loop for that CI"),
        Branch("No clear cause",
               "Escalate to senior engineer; consider blue/green failover (Section 5, Step 4)") >>] >>

getCloudInfraDiagnosisSteps(incident) ==
  << [type |-> "numbered_step", stepNumber |-> 1,
      text |-> [tpl |-> "cloud.diag.provider-status", ci |-> incident.affected_ci,
                service |-> incident.affected_service, s5refs |-> <<5>>,
                region |-> Coalesce(incident.region, "your region")]],
     Step(2, "cloud.diag.compute-health", incident, <<>>),
     Step(3, "cloud.diag.iam-changes", incident, <<>>),
     [type |-> "decision_tree",
      condition |-> "Cloud/Infra diagnosis outcome?",
      branches |-> <<
        Branch("Provider-side AZ/region incident",
               "Section 5, Step 5: Failover to secondary region"),
        Branch("Compute instances impaired",
               "Section 5, Step 1: Replace/restart impaired instances"),
        Branch("IAM/permission change",
               "Section 5, Step 2: Revert IAM change via CloudTrail event"),
        Branch("Autoscaling stuck or misconfigured",
               "Section 5, Step 3: Manually scale out, fix ASG policy"),
        Branch("Unknown",
               "Escalate to cloud architect; open cloud provider P1 case (Section 6)") >>] >>

\* the Security steps without the closing critical alert
getSecurityDiagnosisSteps_noAlert(incident) ==
  << Step(1, "sec.diag.siem", incident, <<>>),
     Step(2, "sec.diag.auth-logs", incident, <<>>),
     Step(3, "sec.diag.dlp", incident, <<>>) >>

getSecurityDiagnosisSteps(incident) ==
  << Step(1, "sec.diag.siem", incident, <<>>),
     Step(2, "sec.diag.auth-logs", incident, <<>>),
     Step(3, "sec.diag.dlp", incident, <<>>),
     [type |-> "alert_box", alertLevel |-> "critical",
      text |-> [tpl |-> "SECURITY INCIDENT HANDLING: escalate to the CISO and Legal team BEFORE taking any containment action"]] >>

getGenericDiagnosisSteps(incident) ==
  << Step(1, "gen.diag.health-endpoint", incident, <<>>),
     Step(2, "gen.diag.system-logs", incident, <<>>),
     Step(3, "gen.diag.resources", incident, <<>>),
     Step(4, "gen.diag.recent-changes", incident, <<>>) >>

\* the if-chain of buildSection4 tested on the category as given
diagnosisGenerator_caseSensitive(categoryText) ==
  LET category == categoryText
  IN  IF includes(category, kw_database) THEN "Database"
      ELSE IF includes(category, kw_network) THEN "Network"
      ELSE IF includes(category, kw_application) THEN "Application"
      ELSE IF includes(category, kw_cloud) \/ includes(category, kw_infra) THEN "CloudInfra"
      ELSE IF includes(category, kw_security) THEN "Security"
      ELSE "Generic"

\* the if-chain of buildSection4: which generator the category selects
diagnosisGenerator(categoryText) ==
  LET category == toLowerCase(categoryText)
  IN  IF includes(category, kw_database) THEN "Database"
      ELSE IF includes(category, kw_network) THEN "Network"
      ELSE IF includes(category, kw_application) THEN "Application"
      ELSE IF includes(category, kw_cloud) \/ includes(category, kw_infra) THEN "CloudInfra"
      ELSE IF includes(category, kw_security) THEN "Security"
      ELSE "Generic"

diagnosisSteps(incident) ==
  LET g == diagnosisGenerator(incident.category)
  IN  CASE g = "Database"    -> getDatabaseDiagnosisSteps(incident)
        [] g = "Network"     -> getNetworkDiagnosisSteps(incident)
        [] g = "Application" -> getApplicationDiagnosisSteps(incident)
        [] g = "CloudInfra"  -> getCloudInfraDiagnosisSteps(incident)
        [] g = "Security"    -> getSecurityDiagnosisSteps(incident)
        [] OTHER             -> getGenericDiagnosisSteps(incident)

buildSection4(incident, stakeholders, ic, techLead, L) ==
  LET owner == OptField(stakeholders, techLead, "name", "Technical Lead")
      team  == OptField(stakeholders, techLead, "team", "Engineering")
      L1 == addAction(L, "Diagnosis",
              <<"Run initial ", incident.category, " health check on ", incident.affected_ci>>,
              owner, team, "P1", "T+10")
      L2 == addAction(L1, "Diagnosis",
              <<"Collect logs from affected CI and downstream services">>,
              owner, team, "P1", "T+15")
      L3 == addAction(L2, "Diagnosis",
              <<"Check recent change/deployment history (last 4 hours)">>,
              owner, team, "P1", "T+15")
      L4 == addAction(L3, "Diagnosis", <<"Document working hypothesis in Slack channel">>,
              OptField(stakeholders, ic, "name", "IC"),
              OptField(stakeholders, ic, "team", "Operations"), "P2", "T+20")
      head ==
        << [type |-> "paragraph",
            text |-> [tpl |-> "s4.owner", name |-> owner,
                      slack |-> OptField(stakeholders, techLead, "slack", "assign tech lead")]],
           [type |-> "alert_box", alertLevel |-> "info", text |-> [tpl |-> "s4.expectations"]] >>
      tail ==
        << [type |-> "heading", level |-> 2, text |-> [tpl |-> "Root Cause Hypothesis Log"]],
           [type |-> "paragraph", text |-> [tpl |-> "s4.post-hypothesis"]],
           [type |-> "command", text |-> [tpl |-> "s4.hypothesis-form"]] >>
  IN  [ledger |-> L4,
       section |-> [sectionNumber |-> 4, title |-> "Diagnosis & Investigation Steps",
                    blocks |-> head \o diagnosisSteps(incident) \o tail]]

\* ------------------------------------------------------------------------
\* Containment generators (buildSection5)
\* ------------------------------------------------------------------------
getDatabaseContainmentSteps(incident) ==
  << Step(1, "db.contain.failover", incident, <<>>),
     Step(2, "db.contain.restart-pool", incident, <<>>),
     Step(3, "db.contain.kill-blocking-sessions", incident, <<>>),
     Step(4, "db.contain.rollback-deployment", incident, <<>>) >>

getApplicationContainmentSteps(incident) ==
  << Step(1, "app.contain.rollback-deployment", incident, <<>>),
     Step(2, "app.contain.disable-feature-flag", incident, <<>>),
     Step(3, "app.contain.restart-services", incident, <<>>) >>

getNetworkContainmentSteps(incident) ==
  << Step(1, "net.contain.revert-routing", incident, <<>>),
     Step(2, "net.contain.revert-firewall", incident, <<>>),
     Step(3, "net.contain.bypass-cdn", incident, <<>>) >>

getCloudInfraContainmentSteps(incident) ==
  << Step(1, "cloud.contain.replace-instances", incident, <<>>),
     Step(2, "cloud.contain.failover-region", incident, <<>>) >>

getGenericContainmentSteps(incident) ==
  << Step(1, "gen.contain.restart-service", incident, <<>>),
     Step(2, "gen.contain.rollback-change", incident, <<>>),
     Step(3, "gen.contain.failover-standby", incident, <<>>) >>

\* the if-chain of buildSection5 with the cloud/infra test ahead of the others
containmentGenerator_infraFirst(categoryText) ==
  LET category == toLowerCase(categoryText)
  IN  IF includes(category, kw_cloud) \/ includes(category, kw_infra) THEN "CloudInfra"
      ELSE IF includes(category, kw_database) THEN "Database"
      ELSE IF includes(category, kw_network) THEN "Network"
      ELSE IF includes(category, kw_application) THEN "Application"
      ELSE "Generic"

\* the if-chain of buildSection5: which generator the category selects
containmentGenerator(categoryText) ==
  LET category == toLowerCase(categoryText)
  IN  IF includes(category, kw_database) THEN "Database"
      ELSE IF includes(category, kw_network) THEN "Network"
      ELSE IF includes(category, kw_application) THEN "Application"
      ELSE IF includes(category, kw_cloud) \/ includes(category, kw_infra) THEN "CloudInfra"
      ELSE "Generic"

containmentSteps(incident) ==
  LET g == containmentGenerator(incident.category)
  IN  CASE g = "Database"    -> getDatabaseContainmentSteps(incident)
        [] g = "Network"     -> getNetworkContainmentSteps(incident)
        [] g = "Application" -> getApplicationContainmentSteps(incident)
        [] g = "CloudInfra"  -> getCloudInfraContainmentSteps(incident)
        [] OTHER             -> getGenericContainmentSteps(incident)

buildSection5(incident, stakeholders, techLead, L) ==
  LET owner == OptField(stakeholders, techLead, "name", "Technical Lead")
      team  == OptField(stakeholders, techLead, "team", "Engineering")
      L1 == addAction(L, "Containment",
              <<"Execute primary containment action (per diagnosis findings)">>,
              owner, team, "P1", "T+20")
      L2 == addAction(L1, "Containment",
              <<"Validate containment effectiveness - monitor error rates">>,
              owner, team, "P1", "T+30")
      L3 == addAction(L2, "Containment",
              <<"Document all actions taken with exact timestamps in Slack">>,
              owner, team, "P2", "T+35")
      head ==
        << [type |-> "paragraph",
            text |-> [tpl |-> "s5.owner-rule", name |-> owner,
                      channel |-> toLowerCase(incident.number)]],
           [type |-> "alert_box", alertLevel |-> "warning", text |-> [tpl |-> "s5.cab"]] >>
  IN  [ledger |-> L3,
       section |-> [sectionNumber |-> 5, title |-> "Containment & Mitigation Actions",
                    blocks |-> head \o containmentSteps(incident)]]

\* ------------------------------------------------------------------------
\* Section builders 6-8
\* ------------------------------------------------------------------------
namesAtLevel(stakeholders, level) ==
  join(Map(SelectSeq(stakeholders, LAMBDA s : s.escalation_level = level), nameOf), ", ")

levelLabel(s) ==
  IF s.escalation_level = 1 THEN "Level 1 - Immediate"
  ELSE IF s.escalation_level = 2 THEN "Level 2 - T+30"
  ELSE "Level 3 - T+60+"

\* a contact row that leaves the Slack handle out
contactRow_noSlack(s) == <<s.name, s.role, levelLabel(s), s.phone, s.email>>

contactRow(s) == <<s.name, s.role, levelLabel(s), s.phone, s.email, s.slack>>

vendorRow(v) == <<v.vendor, v.account_number, v.support_url, v.phone, v.severity_mapping>>

\* Section 6 with the vendor heading and table pushed whatever the vendor list
buildSection6_alwaysVendors(stakeholders, vendors) ==
  LET base ==
        << [type |-> "paragraph", text |-> [tpl |-> "s6.intro"]],
           [type |-> "table",
            rows |-> <<
              <<"Time Elapsed", "Action", "Escalate To", "Contact Method">>,
              <<"T+15 (not contained)",
                "Escalate to Technical Lead + IC if not already engaged",
                namesAtLevel(stakeholders, 1), "Phone + Slack">>,
              <<"T+30 (not contained)",
                "Escalate to VP/Senior Management; consider vendor support",
                OrElse(namesAtLevel(stakeholders, 2), "Level 2 contacts"), "Phone + Email">>,
              <<"T+60 (not contained)",
                "Escalate to C-Suite; open P1 case with relevant vendor",
                OrElse(namesAtLevel(stakeholders, 3), "Executive team"), "Phone">>,
              <<"T+120 (still unresolved)",
                "Consider declaring Major Incident; invoke DR plan; all hands",
                "All stakeholders + DRI team", "Emergency all-hands bridge">> >>],
           [type |-> "heading", level |-> 2,
            text |-> [tpl |-> "Individual Escalation Contacts"]],
           [type |-> "table",
            rows |-> << <<"Name", "Role", "Escalation Level", "Phone", "Email", "Slack">> >>
                     \o Map(stakeholders, contactRow)] >>
      vendorPart ==
        IF TRUE
        THEN << [type |-> "heading", level |-> 2,
                 text |-> [tpl |-> "Vendor / Third-Party Escalation"]],
                [type |-> "table",
                 rows |-> << <<"Vendor", "Account Number", "Support URL", "Phone",
                               "Severity to Declare">> >>
                          \o Map(vendors, vendorRow)] >>
        ELSE << >>
  IN  [sectionNumber |-> 6, title |-> "Escalation Matrix", blocks |-> base \o vendorPart]

buildSection6(stakeholders, vendors) ==
  LET base ==
        << [type |-> "paragraph", text |-> [tpl |-> "s6.intro"]],
           [type |-> "table",
            rows |-> <<
              <<"Time Elapsed", "Action", "Escalate To", "Contact Method">>,
              <<"T+15 (not contained)",
                "Escalate to Technical Lead + IC if not already engaged",
                namesAtLevel(stakeholders, 1), "Phone + Slack">>,
              <<"T+30 (not contained)",
                "Escalate to VP/Senior Management; consider vendor support",
                OrElse(namesAtLevel(stakeholders, 2), "Level 2 contacts"), "Phone + Email">>,
              <<"T+60 (not contained)",
                "Escalate to C-Suite; open P1 case with relevant vendor",
                OrElse(namesAtLevel(stakeholders, 3), "Executive team"), "Phone">>,
              <<"T+120 (still unresolved)",
                "Consider declaring Major Incident; invoke DR plan; all hands",
                "All stakeholders + DRI team", "Emergency all-hands bridge">> >>],
           [type |-> "heading", level |-> 2,
            text |-> [tpl |-> "Individual Escalation Contacts"]],
           [type |-> "table",
            rows |-> << <<"Name", "Role", "Escalation Level", "Phone", "Email", "Slack">> >>
                     \o Map(stakeholders, contactRow)] >>
      vendorPart ==
        IF Len(vendors) > 0
        THEN << [type |-> "heading", level |-> 2,
                 text |-> [tpl |-> "Vendor / Third-Party Escalation"]],
                [type |-> "table",
                 rows |-> << <<"Vendor", "Account Number", "Support URL", "Phone",
                               "Severity to Declare">> >>
                          \o Map(vendors, vendorRow)] >>
        ELSE << >>
  IN  [sectionNumber |-> 6, title |-> "Escalation Matrix", blocks |-> base \o vendorPart]

Checklist(tpl) == [type |-> "checklist_item", text |-> [tpl |-> tpl]]

Heading2(text) == [type |-> "heading", level |-> 2, text |-> [tpl |-> text]]

buildSection7(incident, stakeholders, ic, L) ==
  LET owner == OptField(stakeholders, ic, "name", "IC")
      team  == OptField(stakeholders, ic, "team", "Operations")
      L1 == addAction(L, "Resolution",
              <<"Validate ", incident.affected_service, " end-to-end health checks pass">>,
              owner, team, "P1", "T+0 post-fix")
      L2 == addAction(L1, "Resolution",
              <<"Confirm error rate and latency return to baseline">>,
              owner, team, "P1", "T+5 post-fix")
      L3 == addAction(L2, "Resolution", <<"Run synthetic monitor / smoke test">>,
              owner, team, "P1", "T+5 post-fix")
      L4 == addAction(L3, "Resolution",
              <<"Formally downgrade to Sev2 / close bridge once all checks pass">>,
              owner, team, "P2", "T+10 post-fix")
      L5 == addAction(L4, "Resolution",
              <<"Send Service Restored notification (Email Template 5)">>,
              owner, team, "P1", "T+5 post-fix")
      blocks ==
        << [type |-> "paragraph",
            text |-> [tpl |-> "s7.owner",
                      name |-> OptField(stakeholders, ic, "name", "Incident Commander")]],
           Heading2("Resolution Criteria Checklist"),
           [type |-> "checklist_item",
            text |-> [tpl |-> "s7.health-endpoint", ci |-> incident.affected_ci]],
           [type |-> "checklist_item",
            text |-> [tpl |-> "s7.synthetic-monitor", service |-> incident.affected_service]],
           Checklist("s7.error-rate"),
           Checklist("s7.p99-latency"),
           Checklist("s7.primary-flow"),
           Checklist("s7.alerts-quiet"),
           Checklist("s7.monitored-10-min"),
           Checklist("s7.no-complaints"),
           Heading2("Severity Downgrade Criteria"),
           [type |-> "table",
            rows |-> <<
              <<"Condition", "Action">>,
              <<"All health checks pass, no customer impact, stable for 10 min",
                "Downgrade to Sev2 and continue monitoring">>,
              <<"Partial restoration (some customers still affected)",
                "Downgrade to Sev2, keep bridge open, continue investigation">>,
              <<"Workaround in place (not fully resolved)",
                "Downgrade to Sev2, open follow-up task for permanent fix">> >>],
           Heading2("Closing the Bridge"),
           [type |-> "numbered_step", stepNumber |-> 1, text |-> [tpl |-> "s7.announce"]],
           [type |-> "numbered_step", stepNumber |-> 2,
            text |-> [tpl |-> "s7.post-resolved",
                      channel |-> replaceFirstInc(toLowerCase(incident.number)),
                      number |-> incident.number, service |-> incident.affected_service]],
           [type |-> "numbered_step", stepNumber |-> 3, text |-> [tpl |-> "s7.send-template-5"]],
           [type |-> "numbered_step", stepNumber |-> 4, text |-> [tpl |-> "s7.stand-down"]] >>
  IN  [ledger |-> L5,
       section |-> [sectionNumber |-> 7, title |-> "Resolution & Validation",
                    blocks |-> blocks]]

buildSection8(incident, stakeholders, ic, commsLead, L) ==
  LET owner == OptField(stakeholders, ic, "name", "IC")
      team  == OptField(stakeholders, ic, "team", "Operations")
      L1 == addAction(L, "Resolution",
              <<"Update ServiceNow incident ticket with timeline and resolution">>,
              owner, team, "P2", "T+30 post-fix")
      L2 == addAction(L1, "Resolution", <<"Create PIR ticket and schedule PIR meeting">>,
              owner, team, "P2", "T+2 days")
      L3 == addAction(L2, "Resolution", <<"Send PIR invitation email (Template 6)">>,
              OptField(stakeholders, commsLead, "name", "Comms Lead"),
              OptField(stakeholders, commsLead, "team", "Communications"), "P2", "T+1 day")
      blocks ==
        << [type |-> "paragraph",
            text |-> [tpl |-> "s8.owner",
                      name |-> OptField(stakeholders, ic, "name", "Incident Commander"),
                      number |-> incident.number]],
           Heading2("Documentation Before Closing"),
           Checklist("s8.timeline"),
           Checklist("s8.containment-actions"),
           Checklist("s8.root-cause"),
           Checklist("s8.customer-impact"),
           Checklist("s8.workarounds"),
           Checklist("s8.follow-ups"),
           Heading2("ServiceNow Resolution Update"),
           [type |-> "paragraph",
            text |-> [tpl |-> "s8.update-ticket", number |-> incident.number]],
           [type |-> "command",
            text |-> [tpl |-> "s8.resolution-notes", number |-> incident.number]],
           Heading2("Post-Incident Review (PIR) Ticket"),
           [type |-> "paragraph", text |-> [tpl |-> "s8.raise-pir"]],
           [type |-> "command",
            text |-> [tpl |-> "s8.pir-ticket", number |-> incident.number,
                      title |-> incident.title,
                      assignedTo |-> OptField(stakeholders, ic, "name", "[INCIDENT COMMANDER]"),
                      attendee |-> OptField(stakeholders, ic, "name", "[IC]")]],
           Heading2("ServiceNow Ticket Closure Checklist"),
           Checklist("s8.state-resolved"),
           Checklist("s8.close-code"),
           Checklist("s8.resolution-notes-filled"),
           Checklist("s8.link-pir"),
           Checklist("s8.attach-files"),
           Checklist("s8.send-template-6"),
           Checklist("s8.archive-channel") >>
  IN  [ledger |-> L3,
       section |-> [sectionNumber |-> 8, title |-> "Post-Incident Handoff",
                    blocks |-> blocks]]

\* ------------------------------------------------------------------------
\* Markdown serializer (runbookToMarkdown, blockToMarkdown)
\* A document is kept as its lines, a line as the pieces it is made of.
\* ------------------------------------------------------------------------

\* new Date(rb.generatedAt).toUTCString(): seconds resolution
toUTCString(iso) ==
  CASE iso \in {"2026-02-26T14:10:00.000Z", "2026-02-26T14:10:00.001Z"} ->
         "Thu, 26 Feb 2026 14:10:00 GMT"
    [] OTHER -> "Invalid Date"

mdBlank == [md |-> "text", text |-> ""]

\* "| " + row.join(" | ") + " |"
mdTableRow(row) == [md |-> "row", cells |-> row]

\* "| " + rows[0].map(() => "---").join(" | ") + " |"
mdSeparator(header) == [md |-> "row", cells |-> [k \in 1..Len(header) |-> "---"]]

mdBranch(branch) ==
  [md |-> "branch", condition |-> branch.condition, action |-> branch.action]

mdAlertIcon(alertLevel) ==
  IF alertLevel = "critical" THEN "red"
  ELSE IF alertLevel = "warning" THEN "yellow" ELSE "blue"

\* the table case of blockToMarkdown: the rows of the block as they are
mdTable(block, rb) ==
  IF block.rows = <<>> THEN <<>>
  ELSE <<mdTableRow(block.rows[1]), mdSeparator(block.rows[1])>>
       \o Map(Tail(block.rows), mdTableRow)

blockToMarkdown(block, rb) ==
  CASE block.type = "heading" ->
         <<[md |-> "heading", hashes |-> block.level + 1, text |-> block.text]>>
    [] block.type = "paragraph" -> <<[md |-> "text", text |-> block.text]>>
    [] block.type = "numbered_step" ->
         <<[md |-> "step", stepNumber |-> block.stepNumber, text |-> block.text]>>
    [] block.type = "checklist_item" -> <<[md |-> "- [ ]", text |-> block.text]>>
    [] block.type = "bullet" -> Map(block.items, LAMBDA item : [md |-> "-", text |-> item])
    [] block.type = "command" ->
         <<[md |-> "fence"], [md |-> "text", text |-> block.text], [md |-> "fence"]>>
    [] block.type = "table" -> mdTable(block, rb)
    [] block.type = "decision_tree" ->
         <<[md |-> "bold", text |-> block.condition], mdBlank>>
         \o Map(block.branches, mdBranch)
    [] block.type = "alert_box" ->
         <<[md |-> "quote", icon |-> mdAlertIcon(block.alertLevel),
            level |-> block.alertLevel, text |-> block.text]>>
    [] block.type = "email_template" ->
         LET t == block.emailTemplate
         IN  <<[md |-> "email heading", phase |-> t.phase, timing |-> t.timing],
               [md |-> "subject", subject |-> t.subject],
               [md |-> "to", to |-> t.to]>>
             \o (IF Len(t.cc) > 0 THEN <<[md |-> "cc", cc |-> t.cc]>> ELSE <<>>)
             \o <<mdBlank, [md |-> "fence"], [md |-> "body", body |-> t.body],
                  [md |-> "fence"]>>
    [] OTHER -> <<[md |-> "text", text |-> block.text]>>

mdSection(section, rb) ==
  [rule |-> "---",
   heading |-> [md |-> "heading", hashes |-> 2, sectionNumber |-> section.sectionNumber,
                text |-> section.title],
   blocks |-> [k \in 1..Len(section.blocks) |->
                 blockToMarkdown(section.blocks[k], rb) \o <<mdBlank>>]]

runbookToMarkdown(rb) ==
  [head |-> <<[md |-> "title", number |-> rb.incident.number],
              [md |-> "generated", at |-> toUTCString(rb.generatedAt)],
              [md |-> "commander",
               name |-> OptField(rb.stakeholders, rb.incidentCommander, "name", "TBD")],
              mdBlank>>,
   sections |-> [i \in 1..Len(rb.sections) |-> mdSection(rb.sections[i], rb)]]

\* ------------------------------------------------------------------------
\* Word builder (buildDocumentChildren) and Excel builder (buildXlsx)
\* ------------------------------------------------------------------------
TABLE_WIDTH == 8640

\* cell.includes(marker), for the cells of the model, which are whole strings
cellIncludes(cell, marker) == cell = marker

resolveTablePlaceholders(rows, rb) ==
  LET isTriageTable ==
        \E r \in 1..Len(rows) : \E k \in 1..Len(rows[r]) :
           cellIncludes(rows[r][k], "[IC_NAME]")
      immediateStakeholders == SelectSeq(rb.stakeholders, isImmediate)
  IN  IF ~isTriageTable THEN rows
      ELSE <<rows[1]>>
           \o Map(immediateStakeholders, LAMBDA s : <<s.name, s.role, s.slack, s.phone>>)

buildTableNode(rows, rb) ==
  IF Len(rows) = 0
  THEN [node |-> "Table", rows |-> <<[tableHeader |-> FALSE, cells |-> <<"">>]>>,
        columnWidths |-> <<>>]
  ELSE LET resolvedRows == resolveTablePlaceholders(rows, rb)
           colCount == Len(resolvedRows[1])
           colWidths == IF colCount = 2
                        THEN <<2200, TABLE_WIDTH - 2200>>
                        ELSE [k \in 1..colCount |-> TABLE_WIDTH \div colCount]
       IN  [node |-> "Table",
            rows |-> [r \in 1..Len(resolvedRows) |->
                        [tableHeader |-> r = 1, cells |-> resolvedRows[r]]],
            columnWidths |-> colWidths]

\* ------------------------------------------------------------------------
\* The text of the numbered steps, line by line (text.split("\n")).
\* A line is the literal text up to its first interpolation and then each
\* interpolated expression with the literal text after it; characters outside
\* ASCII are written as a name in angle brackets, "->", "--" or "*", and a
\* back-tick is written "~" (the fence of a code block is "~~~").
\* ------------------------------------------------------------------------
Plain(lead) == [lead |-> lead, rest |-> <<>>]

Line(lead, rest) == [lead |-> lead, rest |-> rest]

\* an interpolation whose value the text record does not carry
Hole(expr, after) == [expr |-> expr, known |-> FALSE, after |-> after]

\* an interpolation with its value
HoleOf(expr, value, after) ==
  [expr |-> expr, known |-> TRUE, value |-> value, after |-> after]

stepLines(text) ==
  CASE text.tpl = "s2.confirm" ->
      << Plain("**T+0 -- Confirm the alert is genuine.**"),
         Plain(""),
         Line("Check that ",
           <<HoleOf("incident.affected_ci", text.ci, " is actually unreachable or degraded. Do NOT assume the monitoring tool is always right -- false positives happen.")>>),
         Plain(""),
         Line("Run: ~ping ",
           <<HoleOf("incident.affected_ci", text.ci, "~ and ~curl -I https://"),
             HoleOf("incident.affected_ci", text.ci, "/health~ (or equivalent health endpoint)")>>),
         Plain(""),
         Line("If the CI responds normally -> the alert may be a false positive. Acknowledge in monitoring and add a note to ",
           <<Hole("incident.number", " before standing down.")>>) >>
    [] text.tpl = "s2.dashboard" ->
      << Plain("**T+1 -- Check the monitoring dashboard.**"),
         Plain(""),
         Line("Open the primary monitoring dashboard for '",
           <<HoleOf("incident.affected_service", text.service, "'. Look for:")>>),
         Plain("* Red/critical alerts in the last 15 minutes"),
         Plain("* Any correlated alerts (DB + App + Network firing together suggests a larger blast radius)"),
         Plain("* Comparison to baseline from same time yesterday") >>
    [] text.tpl = "s2.blast" ->
      << Plain("**T+2 -- Assess blast radius.**"),
         Plain(""),
         Plain("Answer these questions before joining the bridge:"),
         Plain("* How many users/customers are affected? (check active sessions, error rates)"),
         Line("* What downstream services depend on '",
           <<HoleOf("incident.affected_ci", text.ci, "'?")>>),
         Line("* Is this isolated to one region (",
           <<Hole("incident.region ?? \"check all regions\"", ") or multi-region?")>>),
         Plain("* Are any other Sev1/Sev2 incidents currently open that could be related?") >>
    [] text.tpl = "s2.slack" ->
      << Plain("**T+3 -- Open the incident Slack channel.**"),
         Plain(""),
         Line("Create channel: ",
           <<Hole("slackChannel", "")>>),
         Plain(""),
         Plain("Paste this message as the first post:"),
         Plain(""),
         Plain("~~~"),
         Line("<siren> INCIDENT OPEN: ",
           <<Hole("incident.number", "")>>),
         Line("Severity: ",
           <<Hole("incident.severity", "")>>),
         Line("Service: ",
           <<Hole("incident.affected_service", "")>>),
         Line("CI: ",
           <<Hole("incident.affected_ci", "")>>),
         Line("Impact: ",
           <<Hole("incident.business_impact", "")>>),
         Line("Bridge: ",
           <<Hole("zoomUrl", "")>>),
         Plain("Runbook: [paste link to this document]"),
         Line("IC: ",
           <<Hole("ic?.name ?? \"[Incident Commander]\"", " ("),
             Hole("ic?.slack ?? \"[slack handle]\"", ")")>>),
         Plain("~~~") >>
    [] text.tpl = "s2.bridge" ->
      << Plain("**T+4 -- Join the Zoom bridge call.**"),
         Plain(""),
         Line("Bridge URL: ",
           <<Hole("zoomUrl", "")>>),
         Line("Dial-in: ",
           <<Hole("ic?.bridge_phone ?? \"[see stakeholders list]\"", "")>>),
         Plain(""),
         Plain("When you join, say:"),
         Line("> \"This is [YOUR NAME], I'm the on-call engineer. I'm declaring this a Sev1 for ",
           <<Hole("incident.affected_service", ". Incident number "),
             Hole("incident.number", ". "),
             Hole("ic?.name ? ic.name + \" is the Incident Commander.\" : \"We need to assign an Incident Commander now.\"", " I'll begin triage while the team joins.\"")>>),
         Plain(""),
         Plain("Record the exact time you joined.") >>
    [] text.tpl = "s2.page" ->
      << Plain("**T+5 -- Page immediate-notify stakeholders.**"),
         Plain(""),
         Plain("The following people must be notified RIGHT NOW (use phone if Slack is unresponsive):") >>
    [] text.tpl = "s3.create" ->
      << Line("Create Slack channel: **",
           <<Hole("incident.number.toLowerCase().replace(/inc/, \"#inc\")", "** (format: ~/incident-channel "),
             Hole("incident.number", "~ or create manually)")>>) >>
    [] text.tpl = "s3.invite" ->
      << Plain("Invite the following people to the channel:"),
         Line("",
           <<HoleOf("stakeholders.filter((s) => s.escalation_level === 1).map((s) => s.slack).join(\" \")", text.handles, "")>>) >>
    [] text.tpl = "s3.pin" ->
      << Plain("Pin the Incident Summary message at the top of the channel so all joiners see it immediately.") >>
    [] text.tpl = "s3.cadence30" ->
      << Plain("Post a status update in the channel every 30 minutes, even if there is nothing new to report. Silence breeds rumour.") >>
    [] text.tpl = "db.diag.cluster-health" ->
      << Plain("**Check cluster/node health.**"),
         Plain(""),
         Line("SSH to primary node: ~ssh admin@",
           <<HoleOf("incident.affected_ci", text.ci, "~")>>),
         Plain("Check cluster status:"),
         Plain("~~~"),
         Plain("# For Oracle RAC:"),
         Plain("srvctl status database -d $(srvctl config database | head -1)"),
         Plain("crsctl status resource -t | grep -E \"(ONLINE|OFFLINE|UNKNOWN)\""),
         Plain(""),
         Plain("# For MySQL/Aurora:"),
         Line("mysqlsh --uri admin@",
           <<HoleOf("incident.affected_ci", text.ci, " -- cluster.status()")>>),
         Plain(""),
         Plain("# For PostgreSQL:"),
         Line("psql -h ",
           <<HoleOf("incident.affected_ci", text.ci, " -U postgres -c \"SELECT pg_is_in_recovery();\"")>>),
         Plain("~~~"),
         Plain(""),
         Plain("<good> **Good**: All nodes ONLINE, primary responding"),
         Plain("<bad> **Bad**: Nodes OFFLINE or UNKNOWN -> proceed to Step 2"),
         Plain("<decision> **Decision**: If all nodes show ONLINE but DB is unresponsive -> go to Step 3 (connection pool exhaustion)") >>
    [] text.tpl = "db.diag.error-logs" ->
      << Plain("**Check database error logs (last 30 minutes).**"),
         Plain(""),
         Plain("~~~"),
         Plain("# Oracle alert log:"),
         Plain("tail -500 /u01/app/oracle/diag/rdbms/*/*/trace/alert_*.log"),
         Plain("grep -i \"ORA-\" /u01/app/oracle/diag/rdbms/*/*/trace/alert_*.log | tail -50"),
         Plain(""),
         Plain("# MySQL:"),
         Plain("mysqlsh -- dba.getCluster().status()"),
         Plain("tail -200 /var/log/mysql/error.log"),
         Plain(""),
         Plain("# PostgreSQL:"),
         Plain("grep \"FATAL\\|ERROR\\|PANIC\" /var/log/postgresql/postgresql-*.log | tail -50"),
         Plain("~~~"),
         Plain(""),
         Plain("<good> **Good**: Only routine messages"),
         Plain("<bad> **Bad**: ORA-04031 (shared pool), ORA-00060 (deadlocks), ORA-12170 (connection timeout) -> document errors and go to Step 4") >>
    [] text.tpl = "db.diag.connection-pool" ->
      << Plain("**Check connection pool exhaustion.**"),
         Plain(""),
         Plain("~~~"),
         Plain("# Oracle -- check active sessions:"),
         Plain("SELECT COUNT(*) FROM v$session WHERE status = 'ACTIVE';"),
         Plain("SELECT value FROM v$parameter WHERE name = 'sessions';"),
         Plain(""),
         Plain("# Check for blocking sessions:"),
         Plain("SELECT sid, serial#, username, blocking_session, seconds_in_wait, state, wait_class"),
         Plain("FROM v$session"),
         Plain("WHERE blocking_session IS NOT NULL;"),
         Plain(""),
         Plain("# Application side -- check pool config:"),
         Plain("# Look for POOL_SIZE, MAX_CONNECTIONS, CONNECTION_TIMEOUT in app config"),
         Plain("~~~"),
         Plain(""),
         Plain("<good> **Good**: Active sessions < 80% of max sessions limit"),
         Plain("<bad> **Bad**: Sessions at max, or blocking sessions detected -> go to Step 6 (kill blocking sessions as mitigation)"),
         Plain("<decision> **Decision**: If connection pool is exhausted -> go to Section 5, Step 3") >>
    [] text.tpl = "db.diag.replication-lag" ->
      << Plain("**Check replication lag (if applicable).**"),
         Plain(""),
         Plain("~~~"),
         Plain("# MySQL replication:"),
         Plain("SHOW SLAVE STATUS\\G"),
         Plain("# Look for: Seconds_Behind_Master (>60 = bad, >300 = critical)"),
         Plain("# And: Slave_IO_Running: Yes, Slave_SQL_Running: Yes"),
         Plain(""),
         Plain("# PostgreSQL streaming replication:"),
         Plain("SELECT client_addr, state, sent_lsn, write_lsn, flush_lsn, replay_lsn,"),
         Plain("  (sent_lsn - replay_lsn) AS replication_lag"),
         Plain("FROM pg_stat_replication;"),
         Plain("~~~"),
         Plain(""),
         Plain("<good> **Good**: Lag < 10 seconds, all replicas running"),
         Plain("<bad> **Bad**: Lag > 60 seconds or replica stopped -> note for root cause; may need to failover to another replica") >>
    [] text.tpl = "db.diag.host-resources" ->
      << Plain("**Check disk, CPU, and memory on the DB host.**"),
         Plain(""),
         Plain("~~~"),
         Plain("top -b -n 1 | head -20"),
         Plain("df -h | grep -E \"(Use%|/$)\""),
         Plain("iostat -x 1 3"),
         Plain("free -h"),
         Plain("~~~"),
         Plain(""),
         Plain("<good> **Good**: CPU < 80%, Memory available > 20%, Disk < 85%, IO wait < 20%"),
         Plain("<bad> **Bad**: Any threshold breached -> resource exhaustion is a likely contributing factor") >>
    [] text.tpl = "db.diag.recent-changes" ->
      << Plain("**Check recent DDL/DML changes and deployments (last 4 hours).**"),
         Plain(""),
         Plain("Query audit log or release tracker:"),
         Plain("~~~"),
         Plain("# Oracle:"),
         Plain("SELECT username, timestamp, action_name, obj_name"),
         Plain("FROM dba_audit_trail"),
         Plain("WHERE timestamp > SYSDATE - (4/24)"),
         Plain("ORDER BY timestamp DESC;"),
         Plain("~~~"),
         Plain(""),
         Plain("Check deployment pipeline for any releases in last 4 hours: [CHECK YOUR DEPLOYMENT TOOL]"),
         Plain(""),
         Plain("<decision> **Decision**: If a deployment occurred within 2 hours of incident detection -> this is your primary hypothesis. Go to Section 5 for rollback options.") >>
    [] text.tpl = "net.diag.reachability" ->
      << Plain("**Confirm reachability from multiple vantage points.**"),
         Plain(""),
         Plain("~~~"),
         Plain("# From your workstation:"),
         Line("ping -c 5 ",
           <<HoleOf("incident.affected_ci", text.ci, "")>>),
         Line("traceroute ",
           <<HoleOf("incident.affected_ci", text.ci, "")>>),
         Line("mtr --report ",
           <<HoleOf("incident.affected_ci", text.ci, "")>>),
         Plain(""),
         Plain("# From another host in the same region:"),
         Line("ssh jump-host \"ping -c 5 ",
           <<HoleOf("incident.affected_ci", text.ci, "\"")>>),
         Line("ssh jump-host \"curl -o /dev/null -s -w '%{http_code}' https://",
           <<HoleOf("incident.affected_ci", text.ci, "/health\"")>>),
         Plain("~~~"),
         Plain(""),
         Plain("<good> **Good**: Reachable from all vantage points, <10ms latency"),
         Plain("<bad> **Bad**: Unreachable from some/all -> packet loss indicates routing or firewall issue"),
         Plain("<decision> **Decision**: If reachable from internal but not external -> check firewall/CDN (Step 3)") >>
    [] text.tpl = "net.diag.routing-bgp" ->
      << Plain("**Check routing tables and BGP status.**"),
         Plain(""),
         Plain("~~~"),
         Plain("# Check routing:"),
         Plain("ip route show"),
         Plain("netstat -rn"),
         Plain(""),
         Plain("# For BGP environments (check with network team):"),
         Plain("show ip bgp summary   # (on router/switch)"),
         Plain("show ip route bgp"),
         Plain(""),
         Plain("# Check DNS resolution:"),
         Line("dig ",
           <<HoleOf("incident.affected_ci", text.ci, "")>>),
         Line("nslookup ",
           <<HoleOf("incident.affected_ci", text.ci, "")>>),
         Plain("~~~"),
         Plain(""),
         Plain("<good> **Good**: Correct routes present, BGP peers UP, DNS resolves correctly"),
         Plain("<bad> **Bad**: Missing routes, BGP peer DOWN, DNS returns wrong IP -> network team escalation required") >>
    [] text.tpl = "net.diag.firewall" ->
      << Plain("**Check firewall and security group rules.**"),
         Plain(""),
         Line("Verify no rule was recently changed that blocks traffic to/from ",
           <<HoleOf("incident.affected_ci", text.ci, ":")>>),
         Plain("~~~"),
         Plain("# Linux firewall:"),
         Plain("sudo iptables -L -n -v | head -50"),
         Plain("sudo firewall-cmd --list-all"),
         Plain(""),
         Plain("# AWS Security Groups (if applicable):"),
         Plain("aws ec2 describe-security-groups --group-ids [SG_ID] --query 'SecurityGroups[*].IpPermissions'"),
         Plain("~~~"),
         Plain(""),
         Plain("<decision> **Decision**: If a rule was changed in last 4 hours -> revert the change (Section 5)") >>
    [] text.tpl = "net.diag.cdn-lb" ->
      << Plain("**Check CDN and load balancer health.**"),
         Plain(""),
         Plain("Verify CDN edge nodes are serving traffic and not returning errors:"),
         Plain("~~~"),
         Line("curl -I -H \"Host: ",
           <<HoleOf("incident.affected_service", text.service, "\" https://[CDN_EDGE_IP]/health")>>),
         Line("curl -I https://",
           <<HoleOf("incident.affected_service", text.service, "/health")>>),
         Plain("~~~"),
         Plain(""),
         Plain("Check load balancer health page in your cloud console or management tool. Look for:"),
         Plain("* Backend instance health checks failing"),
         Plain("* SSL certificate expiry (check expiry date)"),
         Plain("* Origin connection errors") >>
    [] text.tpl = "app.diag.apm" ->
      << Plain("**Check error rate and latency in APM.**"),
         Plain(""),
         Line("Open your APM dashboard (DataDog / New Relic / Dynatrace / CloudWatch) for '",
           <<HoleOf("incident.affected_service", text.service, "'.")>>),
         Plain(""),
         Plain("Look for:"),
         Plain("* Error rate > 1% (baseline) -> is it now 10%? 50%? 100%?"),
         Plain("* P99 latency spike (when did it spike? correlates to deployment or upstream change?)"),
         Plain("* Specific endpoints/operations with highest error rates"),
         Plain(""),
         Plain("<good> **Good**: Error rate and latency within normal range"),
         Plain("<bad> **Bad**: Error rate > 5% or P99 > 10x baseline -> record exact error types and go to Step 2") >>
    [] text.tpl = "app.diag.error-logs" ->
      << Plain("**Check application error logs.**"),
         Plain(""),
         Plain("~~~"),
         Plain("# Kubernetes pods:"),
         Line("kubectl logs -n production deployment/",
           <<HoleOf("incident.affected_ci", text.ci, " --since=30m | grep -i \"error\\|fatal\\|exception\" | tail -100")>>),
         Plain("kubectl get events -n production --sort-by='.lastTimestamp' | tail -30"),
         Plain(""),
         Plain("# Docker:"),
         Line("docker logs ",
           <<HoleOf("incident.affected_ci", text.ci, " --since 30m 2>&1 | grep -i \"error\\|fatal\" | tail -100")>>),
         Plain(""),
         Plain("# Traditional host:"),
         Line("sudo journalctl -u ",
           <<HoleOf("incident.affected_ci", text.ci, " --since \"30 minutes ago\" | grep -i \"error\\|fatal\"")>>),
         Line("tail -200 /var/log/",
           <<HoleOf("incident.affected_ci", text.ci, "/app.log | grep -i \"ERROR\\|FATAL\"")>>),
         Plain("~~~"),
         Plain(""),
         Plain("<good> **Good**: Normal log volume, no new error patterns"),
         Plain("<bad> **Bad**: New error patterns (NullPointerException, ConnectionRefused, OutOfMemoryError) -> record and go to Step 4") >>
    [] text.tpl = "app.diag.deployments" ->
      << Plain("**Check deployment history (last 4 hours).**"),
         Plain(""),
         Plain("Check your deployment pipeline (Jenkins / GitHub Actions / ArgoCD / Spinnaker) for:"),
         Line("* Any deployment to ",
           <<HoleOf("incident.affected_ci", text.ci, " or its dependencies in last 4 hours")>>),
         Plain("* Time of deployment vs. time of first alert (within 15 minutes = likely causal)"),
         Plain("* What changed: code diff, config change, feature flag change"),
         Plain(""),
         Plain("<decision> **Decision**: Deployment within 2 hours -> go to Section 5, Step 1 for rollback") >>
    [] text.tpl = "app.diag.flags-config" ->
      << Plain("**Check feature flags and configuration.**"),
         Plain(""),
         Plain("If your org uses a feature flag system (LaunchDarkly / Flagsmith / Unleash):"),
         Line("* Check if any flag was recently toggled for ",
           <<HoleOf("incident.affected_service", text.service, "")>>),
         Plain("* Check for config changes in your config management system (Consul / etcd / AWS Parameter Store)"),
         Plain(""),
         Plain("~~~"),
         Plain("# Example: AWS Parameter Store change history"),
         Line("aws ssm get-parameter-history --name /prod/",
           <<HoleOf("incident.affected_ci", text.ci, "/config --max-items 5")>>),
         Plain("~~~"),
         Plain(""),
         Plain("<good> **Good**: No flag or config changes in last 4 hours"),
         Plain("<bad> **Bad**: Flag/config changed recently -> Section 5, Step 2: revert flag/config") >>
    [] text.tpl = "cloud.diag.provider-status" ->
      << Plain("**Check cloud provider status and AZ health.**"),
         Plain(""),
         Plain("Before assuming your config is broken, check if the cloud provider has an active incident:"),
         Plain("* AWS: https://health.aws.amazon.com/health/status"),
         Plain("* Azure: https://azure.status.microsoft/"),
         Plain("* GCP: https://status.cloud.google.com/"),
         Plain(""),
         Plain("If there is an active provider-side incident -> note the incident ID, post to Slack, and move to Section 5, Step 5 (failover to backup region)."),
         Plain(""),
         Line("<good> **Good**: All provider services operational in ",
           <<Hole("incident.region ?? \"your region\"", "")>>),
         Plain("<bad> **Bad**: Provider incident active -> escalate to vendor (Section 6) and prepare failover") >>
    [] text.tpl = "cloud.diag.compute-health" ->
      << Plain("**Check compute instance / container health.**"),
         Plain(""),
         Plain("~~~"),
         Plain("# AWS EC2:"),
         Plain("aws ec2 describe-instance-status --instance-ids [INSTANCE_IDS] --include-all-instances"),
         Plain("aws ec2 get-console-output --instance-id [INSTANCE_ID]"),
         Plain(""),
         Plain("# Kubernetes:"),
         Plain("kubectl get nodes -o wide"),
         Plain("kubectl get pods -n production -o wide | grep -v \"Running\\|Completed\""),
         Plain("kubectl describe node [UNHEALTHY_NODE]"),
         Plain(""),
         Plain("# Check autoscaling:"),
         Plain("aws autoscaling describe-auto-scaling-groups --auto-scaling-group-names [ASG_NAME]"),
         Plain("~~~"),
         Plain(""),
         Plain("<good> **Good**: All instances running/healthy, node Ready, autoscaling group healthy"),
         Plain("<bad> **Bad**: Instances impaired, nodes NotReady -> check instance logs and system events") >>
    [] text.tpl = "cloud.diag.iam-changes" ->
      << Plain("**Check IAM / permission changes.**"),
         Plain(""),
         Plain("A permission change can silently break services (S3 access denied, RDS connection refused):"),
         Plain("~~~"),
         Plain("# AWS CloudTrail (last 4 hours):"),
         Plain("aws cloudtrail lookup-events \\"),
         Plain("  --start-time $(date -u -v-4H +%Y-%m-%dT%H:%M:%SZ) \\"),
         Plain("  --lookup-attributes AttributeKey=EventName,AttributeValue=PutRolePolicy"),
         Plain(""),
         Plain("# Also check: DeleteBucketPolicy, RevokeSecurityGroupIngress"),
         Plain("~~~"),
         Plain(""),
         Plain("<decision> **Decision**: If IAM change found near incident start time -> revert the permission change") >>
    [] text.tpl = "sec.diag.siem" ->
      << Plain("**Check SIEM for correlated alerts.**"),
         Plain(""),
         Plain("Open your SIEM (Splunk / QRadar / Sentinel / Elastic SIEM) and run:"),
         Plain("~~~"),
         Line("index=security host=",
           <<HoleOf("incident.affected_ci", text.ci, " earliest=-30m | stats count by source, severity")>>),
         Plain("~~~"),
         Plain(""),
         Plain("Look for:"),
         Plain("* Authentication failures spike"),
         Plain("* Lateral movement indicators (unusual logins across multiple hosts)"),
         Plain("* Data exfiltration indicators (large outbound transfers)"),
         Plain("* Malware signatures or C2 beaconing"),
         Plain(""),
         Plain("<good> **Good**: No correlated security alerts"),
         Plain("<bad> **Bad**: Multiple security alerts firing simultaneously -> this is likely a coordinated attack or breach") >>
    [] text.tpl = "sec.diag.auth-logs" ->
      << Plain("**Check authentication logs for anomalies.**"),
         Plain(""),
         Plain("~~~"),
         Plain("# Linux auth log:"),
         Plain("grep -i \"failed\\|invalid\\|breach\" /var/log/auth.log | tail -100"),
         Plain("grep -i \"accepted\\|opened\" /var/log/auth.log | awk '{print $9}' | sort | uniq -c | sort -rn | head -20"),
         Plain(""),
         Plain("# Windows Event Log (Security):"),
         Plain("Get-WinEvent -LogName Security -MaxEvents 100 | Where {$_.Id -in @(4625,4648,4672,4720)} | Format-List"),
         Plain("~~~"),
         Plain(""),
         Plain("<warning> **IMPORTANT**: If you suspect an active breach, do NOT power off affected systems -- this destroys forensic evidence. Isolate from network instead.") >>
    [] text.tpl = "sec.diag.dlp" ->
      << Plain("**Check DLP (Data Loss Prevention) alerts.**"),
         Plain(""),
         Plain("Verify if any sensitive data may have been exfiltrated:"),
         Plain("* Check DLP console for alerts in last 24 hours"),
         Plain("* Look for large transfers to external IPs"),
         Plain("* Check firewall logs for unusual outbound connections"),
         Plain(""),
         Plain("~~~"),
         Plain("netstat -an | grep ESTABLISHED | grep -v \"127.0.0.1\\|10.\\|192.168.\\|172.\" | head -20"),
         Plain("~~~") >>
    [] text.tpl = "gen.diag.health-endpoint" ->
      << Plain("**Check primary health endpoint.**"),
         Plain(""),
         Plain("~~~"),
         Line("curl -v -m 10 https://",
           <<HoleOf("incident.affected_ci", text.ci, "/health")>>),
         Line("curl -v -m 10 https://",
           <<HoleOf("incident.affected_ci", text.ci, "/status")>>),
         Line("ping -c 5 ",
           <<HoleOf("incident.affected_ci", text.ci, "")>>),
         Plain("~~~"),
         Plain(""),
         Plain("<good> **Good**: 200 OK response, ping responding"),
         Plain("<bad> **Bad**: Timeout, 5xx error, no route to host -> proceed to Step 2") >>
    [] text.tpl = "gen.diag.system-logs" ->
      << Plain("**Check system logs for errors (last 30 minutes).**"),
         Plain(""),
         Plain("~~~"),
         Line("sudo journalctl -u ",
           <<HoleOf("incident.affected_ci", text.ci, " --since \"30 minutes ago\" | grep -i \"error\\|fatal\\|critical\"")>>),
         Plain("tail -200 /var/log/syslog | grep -i \"error\\|fail\\|critical\""),
         Plain("~~~"),
         Plain(""),
         Plain("<good> **Good**: No new error patterns"),
         Plain("<bad> **Bad**: New errors -> document them verbatim; search for known fixes") >>
    [] text.tpl = "gen.diag.resources" ->
      << Plain("**Check system resources.**"),
         Plain(""),
         Plain("~~~"),
         Plain("top -b -n 1 | head -20"),
         Plain("df -h"),
         Plain("free -h"),
         Plain("netstat -s | grep -i \"failed\\|retransmit\\|error\""),
         Plain("~~~"),
         Plain(""),
         Plain("<good> **Good**: CPU < 80%, Memory available, Disk < 85%"),
         Plain("<bad> **Bad**: Resource exhaustion -> immediate escalation required") >>
    [] text.tpl = "gen.diag.recent-changes" ->
      << Plain("**Check recent deployments and configuration changes.**"),
         Plain(""),
         Line("Query your deployment tool and change management system for changes to '",
           <<HoleOf("incident.affected_ci", text.ci, "' in the last 4 hours.")>>),
         Plain(""),
         Plain("<decision> **Decision**: If a change was made -> rollback is the fastest path to service restoration") >>
    [] text.tpl = "db.contain.failover" ->
      << Plain("**Option A: Failover to standby/replica (FASTEST -- preferred first action).**"),
         Plain(""),
         Plain("<warning> CAB required if this is a planned-change environment."),
         Plain(""),
         Plain("~~~"),
         Plain("# Oracle Data Guard failover:"),
         Line("dgmgrl sys/[PASSWORD]@",
           <<HoleOf("incident.affected_ci", text.ci, "")>>),
         Plain("FAILOVER TO [STANDBY_DB_NAME];"),
         Plain(""),
         Plain("# MySQL MHA failover:"),
         Plain("masterha_master_switch --conf=/etc/mha/app.conf --master_state=dead --orig_master_is_new_slave"),
         Plain(""),
         Plain("# AWS RDS Failover:"),
         Plain("aws rds failover-db-cluster --db-cluster-identifier [CLUSTER_ID]"),
         Plain("~~~"),
         Plain(""),
         Plain("**Rollback**: If standby is worse, re-failover back: ~SWITCHOVER TO [PRIMARY_DB];~"),
         Plain(""),
         Plain("Monitor: Check application error rates within 5 minutes of failover.") >>
    [] text.tpl = "db.contain.restart-pool" ->
      << Plain("**Option B: Restart connection pool (if pool exhaustion is the cause).**"),
         Plain(""),
         Plain("~~~"),
         Plain("# Restart application connection pool (varies by tech stack):"),
         Plain("# Spring Boot:"),
         Plain("curl -X POST https://[APP_HOST]/actuator/loggers/com.zaxxer.hikari -d '{\"configuredLevel\":\"DEBUG\"}'"),
         Plain("# Direct kill: kill application processes and let them restart"),
         Line("systemctl restart ",
           <<HoleOf("incident.affected_ci", text.ci, "-app")>>),
         Plain(""),
         Plain("# AWS RDS Proxy (if used):"),
         Plain("aws rds failover-db-cluster --db-cluster-identifier [CLUSTER]"),
         Plain("~~~"),
         Plain(""),
         Plain("**Monitor**: After restart, watch connection count in DB metrics dashboard.") >>
    [] text.tpl = "db.contain.kill-blocking-sessions" ->
      << Plain("**Option C: Kill blocking sessions.**"),
         Plain(""),
         Plain("~~~"),
         Plain("-- Oracle: Find and kill blocking sessions:"),
         Plain("SELECT 'ALTER SYSTEM KILL SESSION ''' || sid || ',' || serial# || ''' IMMEDIATE;'"),
         Plain("FROM v$session"),
         Plain("WHERE blocking_session IS NOT NULL;"),
         Plain("-- Execute the generated statements above after reviewing them"),
         Plain(""),
         Plain("-- MySQL: Kill blocking connections"),
         Plain("SELECT CONCAT('KILL ', id, ';') FROM information_schema.processlist"),
         Plain("WHERE time > 300 AND command != 'Sleep'"),
         Plain("ORDER BY time DESC LIMIT 10;"),
         Plain("~~~"),
         Plain(""),
         Plain("<warning> **Review each session before killing** -- some long-running transactions may be legitimate batch jobs.") >>
    [] text.tpl = "db.contain.rollback-deployment" ->
      << Plain("**Option D: Rollback a recent deployment (if deployment is suspected).**"),
         Plain(""),
         Plain("Get the last known-good deployment tag from your pipeline:"),
         Plain("~~~"),
         Plain("# Kubernetes:"),
         Line("kubectl rollout undo deployment/",
           <<HoleOf("incident.affected_ci", text.ci, " -n production")>>),
         Line("kubectl rollout status deployment/",
           <<HoleOf("incident.affected_ci", text.ci, " -n production")>>),
         Plain(""),
         Plain("# AWS CodeDeploy:"),
         Plain("aws deploy create-deployment \\"),
         Plain("  --application-name [APP_NAME] \\"),
         Plain("  --deployment-group-name [GROUP] \\"),
         Plain("  --deployment-config-name CodeDeployDefault.AllAtOnce \\"),
         Plain("  --revision revisionType=GitHub,gitHubLocation={repository=[REPO],commitId=[LAST_GOOD_COMMIT]}"),
         Plain("~~~") >>
    [] text.tpl = "app.contain.rollback-deployment" ->
      << Plain("**Rollback deployment to last known-good version.**"),
         Plain(""),
         Plain("<warning> CAB required in production."),
         Plain(""),
         Plain("~~~"),
         Plain("# Kubernetes:"),
         Line("kubectl rollout undo deployment/",
           <<HoleOf("incident.affected_ci", text.ci, " -n production")>>),
         Line("kubectl rollout status deployment/",
           <<HoleOf("incident.affected_ci", text.ci, " -n production --timeout=5m")>>),
         Plain(""),
         Plain("# Docker Swarm:"),
         Line("docker service update --rollback ",
           <<HoleOf("incident.affected_ci", text.ci, "")>>),
         Plain(""),
         Plain("# Traditional (restart with previous version):"),
         Line("sudo systemctl stop ",
           <<HoleOf("incident.affected_ci", text.ci, "")>>),
         Plain("# Replace binary/artifact with previous version"),
         Line("sudo systemctl start ",
           <<HoleOf("incident.affected_ci", text.ci, "")>>),
         Plain("~~~"),
         Plain(""),
         Plain("**Validate**: Check error rate in APM dashboard within 2 minutes of rollback.") >>
    [] text.tpl = "app.contain.disable-feature-flag" ->
      << Plain("**Disable problematic feature flag.**"),
         Plain(""),
         Plain("If a feature flag was recently enabled, turn it OFF:"),
         Plain("~~~"),
         Plain("# LaunchDarkly CLI:"),
         Plain("launchdarkly flags update [FLAG_KEY] --off --environment production"),
         Plain(""),
         Plain("# Or via API:"),
         Plain("curl -X PATCH https://app.launchdarkly.com/api/v2/flags/default/[FLAG_KEY] \\"),
         Plain("  -H \"Authorization: [API_KEY]\" \\"),
         Plain("  -d '[{\"op\":\"replace\",\"path\":\"/environments/production/on\",\"value\":false}]'"),
         Plain("~~~"),
         Plain(""),
         Plain("**Validate**: Error rate should drop within 1-2 minutes.") >>
    [] text.tpl = "app.contain.restart-services" ->
      << Plain("**Restart affected services (last resort -- short-term fix only).**"),
         Plain(""),
         Plain("~~~"),
         Plain("# Kubernetes -- rolling restart:"),
         Line("kubectl rollout restart deployment/",
           <<HoleOf("incident.affected_ci", text.ci, " -n production")>>),
         Plain(""),
         Plain("# Systemd:"),
         Line("sudo systemctl restart ",
           <<HoleOf("incident.affected_ci", text.ci, "")>>),
         Plain(""),
         Plain("# ECS:"),
         Line("aws ecs update-service --cluster production --service ",
           <<HoleOf("incident.affected_ci", text.ci, " --force-new-deployment")>>),
         Plain("~~~"),
         Plain(""),
         Plain("<warning> **Note**: A restart may mask the root cause. Capture heap dumps and thread dumps BEFORE restarting if OOM or deadlock is suspected:"),
         Plain("~jmap -dump:format=b,file=/tmp/heapdump.hprof [PID]~") >>
    [] text.tpl = "net.contain.revert-routing" ->
      << Plain("**Revert the routing change / re-advertise the route.**"),
         Plain(""),
         Plain("<warning> CAB required."),
         Plain(""),
         Plain("~~~"),
         Plain("# Rollback network change via your network management tool"),
         Plain("# Or re-advertise the withdrawn BGP route"),
         Plain("# Specific commands depend on your network vendor -- contact your network team"),
         Plain("~~~"),
         Plain(""),
         Line("**Validate**: Run ~traceroute ",
           <<HoleOf("incident.affected_ci", text.ci, "~ from multiple vantage points.")>>) >>
    [] text.tpl = "net.contain.revert-firewall" ->
      << Plain("**Revert firewall rule change.**"),
         Plain(""),
         Plain("~~~"),
         Plain("# Linux iptables -- remove the blocking rule:"),
         Plain("sudo iptables -D INPUT -s [BLOCKED_IP] -j DROP"),
         Plain(""),
         Plain("# AWS Security Group -- restore the inbound rule:"),
         Plain("aws ec2 authorize-security-group-ingress \\"),
         Plain("  --group-id [SG_ID] \\"),
         Plain("  --protocol tcp --port [PORT] --cidr [CIDR]"),
         Plain("~~~") >>
    [] text.tpl = "net.contain.bypass-cdn" ->
      << Plain("**Bypass CDN and route traffic directly to origin.**"),
         Plain(""),
         Plain("Update DNS to point directly to origin load balancer (bypasses CDN caching and edge issues):"),
         Plain("~~~"),
         Plain("# AWS Route 53 -- update record to point to ALB:"),
         Plain("aws route53 change-resource-record-sets --hosted-zone-id [ZONE_ID] \\"),
         Plain("  --change-batch file://failover-dns.json"),
         Plain("~~~"),
         Plain(""),
         Line("**Monitor**: DNS propagation takes 1-5 minutes. Monitor via: ~watch -n 10 \"dig ",
           <<HoleOf("incident.affected_ci", text.ci, " @8.8.8.8\"~")>>),
         Plain(""),
         Plain("**Rollback**: Revert DNS record back to CDN CNAME once CDN issue is resolved.") >>
    [] text.tpl = "cloud.contain.replace-instances" ->
      << Plain("**Replace impaired instances / restart pods.**"),
         Plain(""),
         Plain("~~~"),
         Plain("# AWS EC2 -- terminate impaired instance (ASG will replace):"),
         Plain("aws ec2 terminate-instances --instance-ids [IMPAIRED_INSTANCE_ID]"),
         Plain(""),
         Plain("# Kubernetes -- delete and reschedule pod:"),
         Plain("kubectl delete pod [POD_NAME] -n production"),
         Plain("# If node is impaired, cordon it:"),
         Plain("kubectl cordon [NODE_NAME]"),
         Plain("kubectl drain [NODE_NAME] --ignore-daemonsets --delete-emptydir-data"),
         Plain("~~~") >>
    [] text.tpl = "cloud.contain.failover-region" ->
      << Plain("**Failover to backup region / AZ.**"),
         Plain(""),
         Plain("<warning> CAB required -- high blast radius action."),
         Plain(""),
         Plain("~~~"),
         Plain("# AWS Route 53 health-check based failover:"),
         Plain("aws route53 change-resource-record-sets --hosted-zone-id [ZONE_ID] \\"),
         Plain("  --change-batch '{\"Changes\":[{\"Action\":\"UPSERT\",\"ResourceRecordSet\":{\"Name\":\"[DOMAIN]\",\"Type\":\"A\",\"Failover\":\"SECONDARY\",\"HealthCheckId\":\"[HC_ID]\",\"TTL\":60,\"ResourceRecords\":[{\"Value\":\"[BACKUP_IP]\"}]}}]}'"),
         Plain("~~~"),
         Plain(""),
         Plain("**Validate**: Test from external after 60 seconds (TTL).") >>
    [] text.tpl = "gen.contain.restart-service" ->
      << Plain("**Restart the affected service (first, safest option).**"),
         Plain(""),
         Plain("~~~"),
         Line("sudo systemctl restart ",
           <<HoleOf("incident.affected_ci", text.ci, "")>>),
         Line("sudo systemctl status ",
           <<HoleOf("incident.affected_ci", text.ci, "")>>),
         Plain("~~~"),
         Plain(""),
         Plain("**Validate**: Check health endpoint within 2 minutes. If no improvement -> go to Step 2.") >>
    [] text.tpl = "gen.contain.rollback-change" ->
      << Plain("**Rollback most recent change.**"),
         Plain(""),
         Line("Identify the most recent change to ",
           <<HoleOf("incident.affected_ci", text.ci, " and revert it. Contact the change owner and ask them to revert via normal rollback procedure.")>>),
         Plain(""),
         Plain("<warning> CAB required for all production rollbacks.") >>
    [] text.tpl = "gen.contain.failover-standby" ->
      << Plain("**Failover to backup/standby (if available).**"),
         Plain(""),
         Line("If a backup system or standby environment exists for '",
           <<HoleOf("incident.affected_service", text.service, "', activate it now. Update DNS/load balancer to route traffic to the backup.")>>),
         Plain(""),
         Plain("Get specific failover procedure from: [LINK TO DR PROCEDURE]") >>
    [] text.tpl = "s7.announce" ->
      << Plain("Announce in the Zoom bridge: \"Service is restored. All health checks passing. We are closing the bridge. Thank you everyone.\"") >>
    [] text.tpl = "s7.post-resolved" ->
      << Line("Post in Slack channel ",
           <<Hole("incident.number.toLowerCase().replace(/inc/, \"#inc\")", ":")>>),
         Plain(""),
         Plain("~~~"),
         Line("<good> INCIDENT RESOLVED: ",
           <<Hole("incident.number", "")>>),
         Line("Service: ",
           <<HoleOf("incident.affected_service", text.service, "")>>),
         Plain("Resolved At: [TIMESTAMP UTC]"),
         Plain("Duration: [X hours Y minutes]"),
         Plain("Root Cause (preliminary): [ROOT_CAUSE_HYPOTHESIS]"),
         Plain("Action Taken: [SUMMARY_OF_FIX]"),
         Plain("Next Steps: PIR to be scheduled within 5 business days"),
         Plain("~~~") >>
    [] text.tpl = "s7.send-template-5" ->
      << Plain("Send the Service Restored email (Template 5 in Section 3).") >>
    [] text.tpl = "s7.stand-down" ->
      << Plain("Stand down all escalated stakeholders -- send personal message or call to confirm they know the incident is over.") >>

\* ------------------------------------------------------------------------
\* Block renderers of the Word builder (buildBlock)
\* ------------------------------------------------------------------------
IsBlank(ch) == ch \in {" ", "\t"}

RECURSIVE trimStart(_)
trimStart(str) ==
  IF Len(str) = 0 THEN str
  ELSE IF IsBlank(SubSeq(str, 1, 1)) THEN trimStart(SubSeq(str, 2, Len(str)))
  ELSE str

RECURSIVE trimEnd(_)
trimEnd(str) ==
  IF Len(str) = 0 THEN str
  ELSE IF IsBlank(SubSeq(str, Len(str), Len(str)))
  THEN trimEnd(SubSeq(str, 1, Len(str) - 1))
  ELSE str

\* lines[i].trim()
trim(line) ==
  IF line.rest = <<>> THEN Plain(trimEnd(trimStart(line.lead)))
  ELSE Line(trimStart(line.lead),
            [k \in 1..Len(line.rest) |->
               IF k = Len(line.rest)
               THEN [line.rest[k] EXCEPT !.after = trimEnd(@)]
               ELSE line.rest[k]])

\* !line, for a trimmed line
isEmptyLine(line) ==
  /\ line.lead = ""
  /\ \A k \in 1..Len(line.rest) :
       line.rest[k].known /\ line.rest[k].value = "" /\ line.rest[k].after = ""

\* the text a trimmed line begins with
lineStart(line) ==
  IF line.lead # "" \/ line.rest = <<>> THEN line.lead
  ELSE IF line.rest[1].known THEN line.rest[1].value \o line.rest[1].after
  ELSE ""

\* String.prototype.startsWith
startsWith(str, prefix) ==
  Len(str) >= Len(prefix) /\ SubSeq(str, 1, Len(prefix)) = prefix

\* the test of buildNumberedStep for a command line
isCommandLine(line) ==
  \E prefix \in {"~~~", "ssh", "curl", "#", "SELECT", "kubectl", "aws", "sudo"} :
     startsWith(lineStart(line), prefix)

\* buildCommandBlock: one monospaced paragraph per line that is not a fence
buildCommandBlock(lines) ==
  Map(SelectSeq(lines, LAMBDA l : l # Plain("~~~")),
      LAMBDA l : [node |-> "Paragraph", style |-> "command",
                  line |-> IF l = Plain("") THEN Plain(" ") ELSE l])

\* the paragraphs of the line at position i of a numbered step
stepLineNodes(lines, i) ==
  LET line == trim(lines[i])
  IN  IF isEmptyLine(line) THEN <<>>
      ELSE IF isCommandLine(line) THEN buildCommandBlock(<<line>>)
      ELSE <<[node |-> "Paragraph", style |-> "indented", line |-> line]>>

buildNumberedStep(num, text) ==
  LET lines == stepLines(text)
  IN  <<[node |-> "Paragraph", style |-> "step", line |-> lines[1]]>>
      \o Flatten([k \in 1..(Len(lines) - 1) |-> stepLineNodes(lines, k + 1)])

\* buildBlock: the paragraphs of a block that is not a table
buildBlock(block, rb) ==
  IF block.type = "numbered_step"
  THEN buildNumberedStep(block.stepNumber, block.text)
  ELSE <<[node |-> "Paragraph", of |-> block]>>

\* a table becomes a Table node, any other block the paragraphs of buildBlock
buildBlockNodes(block, rb) ==
  IF block.type = "table"
  THEN <<buildTableNode(block.rows, rb)>>
  ELSE buildBlock(block, rb)

buildDocumentChildren(rb) ==
  [front |-> <<[node |-> "TitlePage", number |-> rb.incident.number],
               [node |-> "PageBreak"], [node |-> "TableOfContents"],
               [node |-> "PageBreak"]>>,
   sections |-> [i \in 1..Len(rb.sections) |->
                   [heading |-> [node |-> "SectionHeading",
                                 sectionNumber |-> rb.sections[i].sectionNumber,
                                 title |-> rb.sections[i].title],
                    nodes |-> [k \in 1..Len(rb.sections[i].blocks) |->
                                 buildBlockNodes(rb.sections[i].blocks[k], rb)],
                    pageBreak |-> [node |-> "PageBreak"]]]]

\* the workbook of buildXlsx: its four sheets and the ledgers they list
buildXlsx(rb) ==
  [sheets |-> <<"Action Items", "Escalation Log", "Incident Timeline",
                "Summary Dashboard">>,
   actionItems |-> rb.actionItems,
   escalationEntries |-> rb.escalationEntries]

\* ------------------------------------------------------------------------
\* YAML parser (parseIncidentYaml, parseStakeholdersYaml)
\* A YAML text is kept as what yaml.load makes of it: whether it is well
\* formed, which keys it has, and the values under them.
\* ------------------------------------------------------------------------

\* an incident YAML: syntax, the root key, the keys absent under it, the values
IncidentYaml(syntax, root, absent, fields) ==
  [syntax |-> syntax, root |-> root, absent |-> absent, fields |-> fields]

\* one entry of the stakeholders list of a stakeholders YAML
StakeholderItem(absent, fields) == [absent |-> absent, fields |-> fields]

StakeholdersYaml(syntax, root, items, vendors) ==
  [syntax |-> syntax, root |-> root, items |-> items, vendors |-> vendors]

\* the string fields IncidentSchema requires, in schema order
RequiredIncidentFields ==
  <<"number", "title", "severity", "priority", "state", "category", "subcategory",
    "affected_service", "affected_ci", "environment", "business_impact", "opened_at",
    "assigned_to", "assignment_group", "caller_id", "short_description", "description">>

\* the fields StakeholderSchema requires, in schema order
RequiredStakeholderFields ==
  <<"name", "role", "title", "team", "email", "phone", "slack", "escalation_level">>

\* IncidentFileSchema.safeParse: the issues, in schema order
incidentIssues(yamlContent) ==
  IF ~yamlContent.root
  THEN <<[path |-> <<"incident">>, message |-> "Required"]>>
  ELSE Map(SelectSeq(RequiredIncidentFields, LAMBDA f : f \in yamlContent.absent),
           LAMBDA f : [path |-> <<"incident", f>>, message |-> "Required"])

\* the characters of a string
Chars(str) == [i \in 1..Len(str) |-> SubSeq(str, i, i)]

Letters ==
  (DOMAIN UpperToLower) \cup
  {"a","b","c","d","e","f","g","h","i","j","k","l","m",
   "n","o","p","q","r","s","t","u","v","w","x","y","z"}

Alnum == Letters \cup Range(DigitChar)

\* z.string().email(): a local part of [A-Z0-9_'+-.] that neither starts with
\* a dot nor ends outside [A-Z0-9_+-], one "@", dot-separated labels that
\* start with a letter or digit, the last one of two letters or more, and no
\* two dots in a row anywhere
isEmail(email) ==
  LET c == Chars(email)
      n == Len(c)
      ats == {i \in 1..n : c[i] = "@"}
  IN  /\ Cardinality(ats) = 1
      /\ LET p == CHOOSE i \in ats : TRUE
             dots == {i \in (p + 1)..n : c[i] = "."}
         IN  /\ p > 1
             /\ \A i \in 1..(p - 1) : c[i] \in Alnum \cup {"_", "'", "+", "-", "."}
             /\ c[1] # "."
             /\ c[p - 1] \in Alnum \cup {"_", "+", "-"}
             /\ \A i \in 1..(n - 1) : ~(c[i] = "." /\ c[i + 1] = ".")
             /\ \A i \in (p + 1)..n : c[i] \in Alnum \cup {"-", "."}
             /\ p < n /\ c[p + 1] \in Alnum
             /\ \A i \in dots : i < n /\ c[i + 1] \in Alnum
             /\ dots # {}
             /\ LET last == CHOOSE i \in dots : \A j \in dots : j <= i
                IN  /\ n - last >= 2
                    /\ \A i \in (last + 1)..n : c[i] \in Letters

\* the issues of one field of a stakeholder entry
stakeholderFieldIssues(item, index, f) ==
  LET path == <<"stakeholders", String(index), f>>
  IN  IF f \in item.absent THEN <<[path |-> path, message |-> "Required"]>>
      ELSE IF f = "email" /\ ~isEmail(item.fields.email)
      THEN <<[path |-> path, message |-> "Invalid email"]>>
      ELSE IF f = "escalation_level"
      THEN (IF item.fields.escalation_level < 1
            THEN <<[path |-> path, message |-> "Number must be greater than or equal to 1"]>>
            ELSE <<>>)
           \o (IF item.fields.escalation_level > 3
               THEN <<[path |-> path, message |-> "Number must be less than or equal to 3"]>>
               ELSE <<>>)
      ELSE <<>>

\* the issues of one stakeholder entry, field by field in schema order
stakeholderIssues(item, index) ==
  Flatten([k \in 1..Len(RequiredStakeholderFields) |->
             stakeholderFieldIssues(item, index, RequiredStakeholderFields[k])])

\* StakeholdersFileSchema.safeParse: the issues, entry by entry
stakeholdersIssues(yamlContent) ==
  IF ~yamlContent.root
  THEN <<[path |-> <<"stakeholders">>, message |-> "Required"]>>
  ELSE Flatten([i \in 1..Len(yamlContent.items) |->
                  stakeholderIssues(yamlContent.items[i], i - 1)])

\* formatZodErrors
formatZodErrors(issues) ==
  Map(issues, LAMBDA e : [field |-> OrElse(join(e.path, "."), "root"),
                          message |-> e.message])

validCategories ==
  <<cat_Database, cat_Network, cat_Application, cat_CloudInfra, cat_Security, cat_Other>>

\* validateIncidentWarnings
validateIncidentWarnings(incident) ==
  (IF ~Truthy(incident.detected_at)
   THEN <<[field |-> "incident.detected_at", message |-> "detected_at is missing"]>>
   ELSE <<>>)
  \o (IF incident.change_related \notin BOOLEAN
      THEN <<[field |-> "incident.change_related",
              message |-> "change_related not specified"]>>
      ELSE <<>>)
  \o (IF ~Truthy(incident.region)
      THEN <<[field |-> "incident.region", message |-> "region not specified"]>>
      ELSE <<>>)
  \o (IF \A k \in 1..Len(validCategories) : incident.category # validCategories[k]
      THEN <<[field |-> "incident.category",
              message |-> [tpl |-> "not a standard category",
                           category |-> incident.category]]>>
      ELSE <<>>)

\* the incident safeParse gives: the values, the defaults in place of absent
\* optional keys
incidentData(yamlContent) ==
  [yamlContent.fields EXCEPT
     !.region = IF "region" \in yamlContent.absent THEN Undefined ELSE @,
     !.detected_at = IF "detected_at" \in yamlContent.absent THEN Undefined ELSE @,
     !.change_related = IF "change_related" \in yamlContent.absent THEN FALSE ELSE @,
     !.related_incident = IF "related_incident" \in yamlContent.absent THEN "" ELSE @]

parseIncidentYaml(yamlContent) ==
  IF ~yamlContent.syntax
  THEN [parsed |-> TRUE, data |-> Undefined,
        errors |-> <<[field |-> "yaml", message |-> "YAML syntax error"]>>,
        warnings |-> <<>>]
  ELSE IF incidentIssues(yamlContent) # <<>>
  THEN [parsed |-> TRUE, data |-> Undefined,
        errors |-> formatZodErrors(incidentIssues(yamlContent)), warnings |-> <<>>]
  ELSE [parsed |-> TRUE, data |-> incidentData(yamlContent), errors |-> <<>>,
        warnings |-> validateIncidentWarnings(incidentData(yamlContent))]

requiredRoles == <<kw_IncidentCommander, kw_TechnicalLead, kw_CommunicationsLead>>

\* validateStakeholderWarnings
validateStakeholderWarnings(data) ==
  Map(SelectSeq(requiredRoles,
                LAMBDA role : ~\E i \in 1..Len(data.stakeholders) :
                   includes(toLowerCase(data.stakeholders[i].role), toLowerCase(role))),
      LAMBDA role : [field |-> "stakeholders",
                     message |-> [tpl |-> "No stakeholder with role", role |-> role]])
  \o (IF ~\E i \in 1..Len(data.stakeholders) : Truthy(data.stakeholders[i].bridge_url)
      THEN <<[field |-> "stakeholders", message |-> "No stakeholder has a bridge_url set"]>>
      ELSE <<>>)
  \o (IF Len(data.vendor_escalations) = 0
      THEN <<[field |-> "vendor_escalations",
              message |-> "No vendor escalations configured"]>>
      ELSE <<>>)

\* the file safeParse gives: the entries, vendor_escalations defaulting to []
stakeholdersData(yamlContent) ==
  [stakeholders |-> Map(yamlContent.items, LAMBDA item : item.fields),
   vendor_escalations |-> yamlContent.vendors]

parseStakeholdersYaml(yamlContent) ==
  IF ~yamlContent.syntax
  THEN [parsed |-> TRUE, data |-> Undefined,
        errors |-> <<[field |-> "yaml", message |-> "YAML syntax error"]>>,
        warnings |-> <<>>]
  ELSE IF stakeholdersIssues(yamlContent) # <<>>
  THEN [parsed |-> TRUE, data |-> Undefined,
        errors |-> formatZodErrors(stakeholdersIssues(yamlContent)), warnings |-> <<>>]
  ELSE [parsed |-> TRUE, data |-> stakeholdersData(yamlContent), errors |-> <<>>,
        warnings |-> validateStakeholderWarnings(stakeholdersData(yamlContent))]

\* ------------------------------------------------------------------------
\* ServiceNow client (snow-client.ts): fetchSnowStakeholders
\* ------------------------------------------------------------------------
IsSpace(ch) == ch \in {" ", "\t"}

\* s.replace(/\s+/g, "."): each run of white space becomes one dot
RECURSIVE replaceSpaces(_)
replaceSpaces(s) ==
  IF s = <<>> THEN <<>>
  ELSE IF ~IsSpace(Head(s)) THEN <<Head(s)>> \o replaceSpaces(Tail(s))
  ELSE IF Len(s) > 1 /\ IsSpace(s[2]) THEN replaceSpaces(Tail(s))
  ELSE <<".">> \o replaceSpaces(Tail(s))

\* m.user?.display_value?.toLowerCase().replace(/\s+/g, ".") ?? "user"
snowHandle(m) ==
  IF ~m.hasUser THEN "user"
  ELSE join(replaceSpaces(toLowerCase(m.display_value)), "")

\* lines 140-150: the stakeholder made of the member at index i (from 0)
snowStakeholder(m, i, assignmentGroup) ==
  [name |-> IF m.hasUser THEN join(m.display_value, "")
            ELSE "Member " \o String(i + 1),
   role |-> IF i = 0 THEN role_IC
            ELSE IF i = 1 THEN kw_TechnicalLead ELSE role_OnCall,
   title |-> "[FILL IN]",
   team |-> assignmentGroup,
   email |-> "[" \o snowHandle(m) \o "@company.com]",
   phone |-> "[FILL IN]",
   slack |-> "@" \o snowHandle(m),
   escalation_level |-> IF i < 2 THEN 1 ELSE 2,
   notify_immediately |-> i < 2]

\* yaml.dump of a stakeholders file: a well-formed document with the
\* stakeholders key, each entry with the keys the object has (strings that
\* would read as something else are quoted by the dumper)
yamlDumpStakeholders(stakeholdersFile) ==
  StakeholdersYaml(TRUE, TRUE,
    Map(stakeholdersFile.stakeholders,
        LAMBDA st : StakeholderItem({"bridge_url", "bridge_phone"},
                      [name |-> st.name, role |-> st.role, title |-> st.title,
                       team |-> st.team, email |-> st.email, phone |-> st.phone,
                       slack |-> st.slack, escalation_level |-> st.escalation_level,
                       notify_immediately |-> st.notify_immediately,
                       bridge_url |-> Undefined, bridge_phone |-> Undefined])),
    stakeholdersFile.vendor_escalations)

\* fetchSnowStakeholders, from the members the group query returned
fetchSnowStakeholders(assignmentGroup, members) ==
  LET first == SubSeq(members, 1, IF Len(members) < 6 THEN Len(members) ELSE 6)
      stakeholders == [k \in 1..Len(first) |->
                         snowStakeholder(first[k], k - 1, assignmentGroup)]
  IN  [stakeholders_yaml |->
         yamlDumpStakeholders([stakeholders |-> stakeholders,
                               vendor_escalations |-> <<>>])]

\* ------------------------------------------------------------------------
\* State: the calls of generateRunbook in one process
\* ------------------------------------------------------------------------
CallIds == {1, 2}

\* the values new Date().toISOString() can give at the return
Clock == {"2026-02-26T14:10:00.000Z", "2026-02-26T14:10:00.001Z"}

VARIABLES
  pc,     \* pc[c]: the position of call c in generateRunbook
  args,   \* args[c]: the arguments (incident, stakeholders, vendors) of call c
  frame,  \* frame[c]: the locals of call c
  ret,    \* ret[c]: the RunbookOutput call c returned
  tool,   \* the generate_runbook tool handler: its position, inputs and results
  files   \* the output files the handler's current request has written

vars == <<pc, args, frame, ret, tool, files>>

\* the state of generateRunbook's calls
core == <<pc, args, frame, ret>>

\* the state of the tool handler around them
host == <<tool, files>>

\* a parse that has not run
NotParsed == [parsed |-> FALSE, data |-> Undefined, errors |-> <<>>, warnings |-> <<>>]

\* a file that is not written
NotWritten == [written |-> FALSE]

NoResponse == [sent |-> FALSE]

\* nothing fetched from ServiceNow for the coming request
NotFetched == [fetched |-> FALSE]

\* outputDir is what the handler finds at, or makes of, the output directory
\* of the request: "present", "absent" or "made"
IdleTool ==
  [pc |-> "idle", incident_yaml |-> Undefined, stakeholders_yaml |-> Undefined,
   incResult |-> NotParsed, stResult |-> NotParsed, response |-> NoResponse,
   snow |-> NotFetched, outputDir |-> "present"]

NoFiles == [md |-> NotWritten, docx |-> NotWritten, xlsx |-> NotWritten]

NoArgs ==
  [incident |-> Inc(<<>>, <<>>, Undefined, "", Undefined, ""),
   stakeholders |-> <<>>, vendors |-> <<>>]

EmptyFrame ==
  [ic |-> 0, techLead |-> 0, commsLead |-> 0, customerLead |-> 0, execSponsor |-> 0,
   bridgeHolder |-> 0, zoomUrl |-> "", bridgePhone |-> "", slackChannel |-> <<>>,
   detectedAt |-> "", emailTemplates |-> <<>>, actionItems |-> <<>>,
   actionCounter |-> 0, sections |-> <<>>, escalationEntries |-> <<>>]

NoOutput ==
  [returned |-> FALSE, incident |-> NoArgs.incident, stakeholders |-> <<>>,
   vendors |-> <<>>, sections |-> <<>>, emailTemplates |-> <<>>, actionItems |-> <<>>,
   escalationEntries |-> <<>>, generatedAt |-> "", slackChannel |-> <<>>, zoomUrl |-> "",
   incidentCommander |-> 0, technicalLead |-> 0, commsLead |-> 0]

Init ==
  /\ pc = [c \in CallIds |-> "idle"]
  /\ args = [c \in CallIds |-> NoArgs]
  /\ frame = [c \in CallIds |-> EmptyFrame]
  /\ ret = [c \in CallIds |-> NoOutput]
  /\ tool = IdleTool
  /\ files = NoFiles

\* a ledger kept at module level: every call appends to the one of the first
ledgerOf_shared(c) ==
  [actionItems |-> frame[1].actionItems, actionCounter |-> frame[1].actionCounter]

\* the ledger a section builder's addAction closes over
ledgerOf(c) ==
  [actionItems |-> frame[c].actionItems, actionCounter |-> frame[c].actionCounter]

\* a counter kept at module level: it goes on from the highest value any call
\* has reached
initialActionCounter_static(c) ==
  LET reached == {frame[d].actionCounter : d \in CallIds}
      top == CHOOSE m \in reached : \A n \in reached : n <= m
  IN  IF top = 0 THEN 1 ELSE top

\* let actionCounter = 1
initialActionCounter(c) == 1

\* a counter that every section builder starts again
counterAfter_restarting(c, L) == 1

\* the counter the closure holds after a section builder has run
counterAfter(c, L) == L.actionCounter

\* generateRunbook is entered with its three arguments
Call(c, incidents, stakeholderLists, vendorLists) ==
  /\ pc[c] = "idle"
  /\ \E incident \in incidents, stakeholders \in stakeholderLists, vendors \in vendorLists :
       args' = [args EXCEPT ![c] = [incident |-> incident, stakeholders |-> stakeholders,
                                    vendors |-> vendors]]
  /\ frame' = [frame EXCEPT ![c] = EmptyFrame]
  /\ ret' = [ret EXCEPT ![c] = NoOutput]
  /\ pc' = [pc EXCEPT ![c] = "resolve"]

\* lines 22-32
ResolveRoles(c) ==
  /\ pc[c] = "resolve"
  /\ LET S  == args[c].stakeholders
         ic == findByRole(S, kw_IncidentCommander)
         bridgeHolder == resolveBridgeHolder(S, ic)
     IN  frame' = [frame EXCEPT ![c] =
           [@ EXCEPT !.ic = ic,
                     !.techLead = findByRole(S, kw_TechnicalLead),
                     !.commsLead = findByRole(S, kw_CommunicationsLead),
                     !.customerLead = findByRole(S, kw_CustomerImpact),
                     !.execSponsor = findByRole(S, kw_ExecutiveSponsor),
                     !.bridgeHolder = bridgeHolder,
                     !.zoomUrl = OptField(S, bridgeHolder, "bridge_url", "[ZOOM_BRIDGE_URL]"),
                     !.bridgePhone = OptField(S, bridgeHolder, "bridge_phone", "[BRIDGE_DIAL_IN]"),
                     !.slackChannel = deriveSlackChannel(args[c].incident.number),
                     !.detectedAt = Coalesce(args[c].incident.detected_at,
                                             args[c].incident.opened_at)]]
  /\ pc' = [pc EXCEPT ![c] = "emails"]
  /\ UNCHANGED <<args, ret, host>>

\* lines 34-39: the email templates, then the fresh ledger of this call
BuildEmails(c) ==
  /\ pc[c] = "emails"
  /\ LET f == frame[c]
         r == buildEmailTemplates(args[c].incident, args[c].stakeholders, f.ic,
                                  f.commsLead, f.zoomUrl, f.slackChannel)
     IN  IF r.threw
         THEN /\ pc' = [pc EXCEPT ![c] = "raised"]
              /\ UNCHANGED frame
         ELSE /\ pc' = [pc EXCEPT ![c] = "s1"]
              /\ frame' = [frame EXCEPT ![c] =
                   [@ EXCEPT !.emailTemplates = r.templates,
                             !.actionItems = <<>>,
                             !.actionCounter = initialActionCounter(c)]]
  /\ UNCHANGED <<args, ret, host>>

\* a section builder that calls addAction has run: its section is the next
\* element of the sections array, the ledger is what its calls left
Built(c, r, next) ==
  /\ frame' = [frame EXCEPT ![c] =
       [@ EXCEPT !.sections = Append(@, r.section),
                 !.actionItems = r.ledger.actionItems,
                 !.actionCounter = counterAfter(c, r.ledger)]]
  /\ pc' = [pc EXCEPT ![c] = next]
  /\ UNCHANGED <<args, ret, host>>

BuildSection1(c) ==
  /\ pc[c] = "s1"
  /\ LET r == buildSection1(args[c].incident)
     IN  IF r.threw
         THEN /\ pc' = [pc EXCEPT ![c] = "raised"]
              /\ UNCHANGED frame
         ELSE /\ pc' = [pc EXCEPT ![c] = "s2"]
              /\ frame' = [frame EXCEPT ![c].sections = Append(@, r.section)]
  /\ UNCHANGED <<args, ret, host>>

BuildSection2(c) ==
  /\ pc[c] = "s2"
  /\ Built(c, buildSection2(args[c].incident, args[c].stakeholders, frame[c].ic,
                            frame[c].zoomUrl, frame[c].slackChannel, ledgerOf(c)), "s3")

BuildSection3(c) ==
  /\ pc[c] = "s3"
  /\ Built(c, buildSection3(args[c].incident, args[c].stakeholders, frame[c].ic,
                            frame[c].commsLead, frame[c].emailTemplates, ledgerOf(c)), "s4")

BuildSection4(c) ==
  /\ pc[c] = "s4"
  /\ Built(c, buildSection4(args[c].incident, args[c].stakeholders, frame[c].ic,
                            frame[c].techLead, ledgerOf(c)), "s5")

BuildSection5(c) ==
  /\ pc[c] = "s5"
  /\ Built(c, buildSection5(args[c].incident, args[c].stakeholders, frame[c].techLead,
                            ledgerOf(c)), "s6")

\* a Section 6 step that leaves the section out when it has no contact and no
\* vendor to list
BuildSection6_omitEmpty(c) ==
  /\ pc[c] = "s6"
  /\ frame' = [frame EXCEPT ![c].sections =
                 IF args[c].stakeholders = <<>> /\ args[c].vendors = <<>>
                 THEN @
                 ELSE Append(@, buildSection6(args[c].stakeholders, args[c].vendors))]
  /\ pc' = [pc EXCEPT ![c] = "s7"]
  /\ UNCHANGED <<args, ret, host>>

BuildSection6(c) ==
  /\ pc[c] = "s6"
  /\ frame' = [frame EXCEPT ![c].sections =
                 Append(@, buildSection6(args[c].stakeholders, args[c].vendors))]
  /\ pc' = [pc EXCEPT ![c] = "s7"]
  /\ UNCHANGED <<args, ret, host>>

BuildSection7(c) ==
  /\ pc[c] = "s7"
  /\ Built(c, buildSection7(args[c].incident, args[c].stakeholders, frame[c].ic,
                            ledgerOf(c)), "s8")

BuildSection8(c) ==
  /\ pc[c] = "s8"
  /\ Built(c, buildSection8(args[c].incident, args[c].stakeholders, frame[c].ic,
                            frame[c].commsLead, ledgerOf(c)), "esc")

\* line 67
BuildEscalation(c) ==
  /\ pc[c] = "esc"
  /\ frame' = [frame EXCEPT ![c].escalationEntries =
                 buildEscalationEntries(args[c].stakeholders)]
  /\ pc' = [pc EXCEPT ![c] = "return"]
  /\ UNCHANGED <<args, ret, host>>

\* lines 69-83
Return(c) ==
  /\ pc[c] = "return"
  /\ \E now \in Clock :
       ret' = [ret EXCEPT ![c] =
         [returned |-> TRUE,
          incident |-> args[c].incident,
          stakeholders |-> args[c].stakeholders,
          vendors |-> args[c].vendors,
          sections |-> frame[c].sections,
          emailTemplates |-> frame[c].emailTemplates,
          actionItems |-> frame[c].actionItems,
          escalationEntries |-> frame[c].escalationEntries,
          generatedAt |-> now,
          slackChannel |-> frame[c].slackChannel,
          zoomUrl |-> frame[c].zoomUrl,
          incidentCommander |-> frame[c].ic,
          technicalLead |-> frame[c].techLead,
          commsLead |-> frame[c].commsLead]]
  /\ pc' = [pc EXCEPT ![c] = "done"]
  /\ UNCHANGED <<args, frame, host>>

\* the caller drops the result of a finished call; the next call of the
\* process starts from nothing
Release(c) ==
  /\ pc[c] \in {"done", "raised"}
  /\ pc' = [pc EXCEPT ![c] = "idle"]
  /\ args' = [args EXCEPT ![c] = NoArgs]
  /\ frame' = [frame EXCEPT ![c] = EmptyFrame]
  /\ ret' = [ret EXCEPT ![c] = NoOutput]
  /\ UNCHANGED host

\* the body of generateRunbook, from its first statement to its return
Body(c) ==
  \/ ResolveRoles(c)
  \/ BuildEmails(c)
  \/ BuildSection1(c)
  \/ BuildSection2(c)
  \/ BuildSection3(c)
  \/ BuildSection4(c)
  \/ BuildSection5(c)
  \/ BuildSection6(c)
  \/ BuildSection7(c)
  \/ BuildSection8(c)
  \/ BuildEscalation(c)
  \/ Return(c)

Steps(c) ==
  \/ Body(c)
  \/ Release(c)

\* one call at a time, over all the inputs of the model
Next ==
  \/ Call(1, Incidents, StakeholderLists, VendorLists) /\ UNCHANGED host
  \/ Steps(1)

Spec == Init /\ [][Next]_vars

\* the inputs of the two interleaved calls
PairIncidents ==
  { Inc(num_INC0001, cat_Database, "us-east-1", TsOpened, TsDetected, "Pool errors"),
    Inc(num_INC_0042, cat_Security, Undefined, TsUnparseable, Undefined, "") }

PairStakeholderLists == { <<>>, <<Alice, Bob>>, <<Carol, Dan>> }

PairVendorLists == { <<>> }

\* two calls whose steps interleave in any order
NextPair ==
  \E c \in CallIds :
    \/ Call(c, PairIncidents, PairStakeholderLists, PairVendorLists) /\ UNCHANGED host
    \/ Steps(c)

SpecPair == Init /\ [][NextPair]_vars

\* the inputs of the calls that resolve a bridge: stakeholders with and
\* without a bridge_url and a bridge_phone, incident commanders among them
BridgePeople == {Alice, Carol, Dan, Frank, Gina}

BridgeStakeholderLists == InjectiveSeqs(BridgePeople, MaxStakeholders)

\* one call at a time, over the bridge inputs
NextBridge ==
  \/ Call(1, PairIncidents, BridgeStakeholderLists, PairVendorLists) /\ UNCHANGED host
  \/ Steps(1)

SpecBridge == Init /\ [][NextBridge]_vars

\* vendor lists long enough for their order to show
OrderedVendorLists == {[i \in 1..k |-> Vendor(i)] : k \in 0..(MaxVendors + 1)}

\* one call at a time, over the vendor inputs
NextVendors ==
  \/ Call(1, PairIncidents, PairStakeholderLists, OrderedVendorLists) /\ UNCHANGED host
  \/ Steps(1)

SpecVendors == Init /\ [][NextVendors]_vars

\* ------------------------------------------------------------------------
\* The generate_runbook tool handler (index.ts)
\* ------------------------------------------------------------------------
ToolIncident == Inc(num_INC0001, cat_Database, "us-east-1", TsOpened, TsDetected, "Pool errors")

ToolIncidentBare == Inc(num_INC_0042, cat_UnknownWidget, "", TsOpened, "", "Widget down")

\* opened_at is any string to the schema; formatTimestamp prints it as it is
ToolIncidentUndated == Inc(num_prb7, cat_Security, "", TsUnparseable, "", "")

\* a category that is not one of the six standard ones and holds a keyword
ToolIncidentLoose ==
  Inc(num_INC0001, cat_DatabaseOutage, "us-east-1", TsOpened, TsDetected, "Pool errors")

\* the incident YAML texts of the requests
ToolIncidentYamls ==
  { IncidentYaml(FALSE, FALSE, {}, ToolIncident),
    IncidentYaml(TRUE, FALSE, {}, ToolIncident),
    IncidentYaml(TRUE, TRUE, {"number"}, ToolIncident),
    IncidentYaml(TRUE, TRUE, {"number", "severity"}, ToolIncident),
    IncidentYaml(TRUE, TRUE, {}, ToolIncident),
    IncidentYaml(TRUE, TRUE, {"region", "detected_at", "change_related", "related_incident"},
                 ToolIncidentBare),
    IncidentYaml(TRUE, TRUE, {"region", "detected_at"}, ToolIncidentUndated),
    IncidentYaml(TRUE, TRUE, {}, ToolIncidentLoose) }

\* a stakeholder entry whose escalation_level is out of range
Heidi == Person("heidi", role_OnCall, "NOC", 4, FALSE, Undefined, Undefined)

\* the stakeholders YAML texts of the requests
ToolStakeholdersYamls ==
  { StakeholdersYaml(FALSE, FALSE, <<>>, <<>>),
    StakeholdersYaml(TRUE, FALSE, <<>>, <<>>),
    StakeholdersYaml(TRUE, TRUE,
      <<StakeholderItem({}, Alice), StakeholderItem({"email", "slack"}, Bob)>>, <<>>),
    StakeholdersYaml(TRUE, TRUE, <<StakeholderItem({}, Heidi)>>, <<Vendor(1)>>),
    StakeholdersYaml(TRUE, TRUE,
      <<StakeholderItem({}, Alice), StakeholderItem({}, Carol), StakeholderItem({}, Dan)>>,
      <<Vendor(1)>>),
    StakeholdersYaml(TRUE, TRUE,
      <<StakeholderItem({}, Erin), StakeholderItem({}, Frank), StakeholderItem({}, Alice)>>,
      <<>>),
    StakeholdersYaml(TRUE, TRUE, <<>>, <<>>) }

\* the result the catch block returns (its body has no errors key: an empty
\* list here)
caught(message) ==
  [sent |-> TRUE, isError |-> TRUE,
   body |-> [success |-> FALSE, error |-> message, errors |-> <<>>]]

\* the result of a failed validation
invalid(message, errors) ==
  [sent |-> TRUE, isError |-> TRUE,
   body |-> [success |-> FALSE, error |-> message, errors |-> errors]]

Respond(response) ==
  tool' = [tool EXCEPT !.pc = "responded", !.response = response]

\* the tool is called with its two YAML texts
ToolRequest ==
  /\ tool.pc = "idle"
  /\ \E iy \in ToolIncidentYamls, sy \in ToolStakeholdersYamls,
        dir \in {"present", "absent"} :
       tool' = [IdleTool EXCEPT !.pc = "mkdir", !.incident_yaml = iy,
                                !.stakeholders_yaml = sy, !.outputDir = dir]
  /\ files' = NoFiles
  /\ UNCHANGED core

\* the output directory is made when it is missing; mkdirSync can throw
ToolEnsureOutputDir ==
  /\ tool.pc = "mkdir"
  /\ IF tool.outputDir = "present"
     THEN tool' = [tool EXCEPT !.pc = "parse_incident"]
     ELSE \E ok \in BOOLEAN :
            IF ok THEN tool' = [tool EXCEPT !.pc = "parse_incident", !.outputDir = "made"]
            ELSE Respond(caught("EACCES: permission denied, mkdir"))
  /\ UNCHANGED <<files, core>>

\* a handler that records the incident errors and goes on
ToolParseIncident_noEarlyReturn ==
  /\ tool.pc = "parse_incident"
  /\ tool' = [tool EXCEPT !.incResult = parseIncidentYaml(tool.incident_yaml),
                           !.pc = "parse_stakeholders"]
  /\ UNCHANGED <<files, core>>

ToolParseIncident ==
  /\ tool.pc = "parse_incident"
  /\ LET incResult == parseIncidentYaml(tool.incident_yaml)
     IN  IF Len(incResult.errors) > 0
         THEN tool' = [tool EXCEPT !.incResult = incResult, !.pc = "responded",
                         !.response = invalid("Incident YAML validation failed",
                                              incResult.errors)]
         ELSE tool' = [tool EXCEPT !.incResult = incResult, !.pc = "parse_stakeholders"]
  /\ UNCHANGED <<files, core>>

ToolParseStakeholders ==
  /\ tool.pc = "parse_stakeholders"
  /\ LET stResult == parseStakeholdersYaml(tool.stakeholders_yaml)
     IN  IF Len(stResult.errors) > 0
         THEN tool' = [tool EXCEPT !.stResult = stResult, !.pc = "responded",
                         !.response = invalid("Stakeholders YAML validation failed",
                                              stResult.errors)]
         ELSE tool' = [tool EXCEPT !.stResult = stResult, !.pc = "generate"]
  /\ UNCHANGED <<files, core>>

\* generateRunbook(incResult.data!, stResult.data!.stakeholders, ...) is
\* entered; on data that is undefined its first property access throws
ToolGenerate ==
  /\ tool.pc = "generate"
  /\ IF Len(tool.incResult.errors) > 0 \/ Len(tool.stResult.errors) > 0
     THEN /\ Respond(caught("Cannot read properties of undefined"))
          /\ UNCHANGED core
     ELSE /\ Call(1, {tool.incResult.data}, {tool.stResult.data.stakeholders},
                  {tool.stResult.data.vendor_escalations})
          /\ tool' = [tool EXCEPT !.pc = "generating"]
  /\ UNCHANGED files

\* generateRunbook has returned (or thrown): runbookToMarkdown, writeFileSync
ToolWriteMarkdown ==
  /\ tool.pc = "generating"
  /\ pc[1] \in {"done", "raised"}
  /\ \E ok \in BOOLEAN :
       IF pc[1] = "raised"
       THEN Respond(caught("Invalid time value")) /\ UNCHANGED files
       ELSE IF ok
       THEN /\ files' = [files EXCEPT !.md = [written |-> TRUE,
                                              content |-> runbookToMarkdown(ret[1])]]
            /\ tool' = [tool EXCEPT !.pc = "docx"]
       ELSE Respond(caught("ENOSPC: no space left on device, write")) /\ UNCHANGED files
  /\ UNCHANGED core

\* buildDocx
ToolWriteDocx ==
  /\ tool.pc = "docx"
  /\ \E ok \in BOOLEAN :
       IF ok
       THEN /\ files' = [files EXCEPT !.docx = [written |-> TRUE,
                                                content |-> buildDocumentChildren(ret[1])]]
            /\ tool' = [tool EXCEPT !.pc = "xlsx"]
       ELSE Respond(caught("ENOSPC: no space left on device, write")) /\ UNCHANGED files
  /\ UNCHANGED core

\* a buildXlsx step that removes the files already written when it fails
ToolWriteXlsx_cleanup ==
  /\ tool.pc = "xlsx"
  /\ \E ok \in BOOLEAN :
       IF ok
       THEN /\ files' = [files EXCEPT !.xlsx = [written |-> TRUE,
                                                content |-> buildXlsx(ret[1])]]
            /\ tool' = [tool EXCEPT !.pc = "respond"]
       ELSE Respond(caught("ENOSPC: no space left on device, write")) /\ files' = NoFiles
  /\ UNCHANGED core

\* buildXlsx
ToolWriteXlsx ==
  /\ tool.pc = "xlsx"
  /\ \E ok \in BOOLEAN :
       IF ok
       THEN /\ files' = [files EXCEPT !.xlsx = [written |-> TRUE,
                                                content |-> buildXlsx(ret[1])]]
            /\ tool' = [tool EXCEPT !.pc = "respond"]
       ELSE Respond(caught("ENOSPC: no space left on device, write")) /\ UNCHANGED files
  /\ UNCHANGED core

\* the success result
ToolRespond ==
  /\ tool.pc = "respond"
  /\ Respond([sent |-> TRUE, isError |-> FALSE,
              body |-> [success |-> TRUE,
                        incidentNumber |-> tool.incResult.data.number,
                        sectionCount |-> Len(ret[1].sections),
                        actionItemCount |-> Len(ret[1].actionItems),
                        emailTemplateCount |-> Len(ret[1].emailTemplates),
                        warnings |-> tool.incResult.warnings \o tool.stResult.warnings]])
  /\ UNCHANGED <<files, core>>

\* the result is with the client; the handler and its runbook are gone
ToolFinish ==
  /\ tool.pc = "responded"
  /\ tool' = IdleTool
  /\ files' = NoFiles
  /\ pc' = [pc EXCEPT ![1] = "idle"]
  /\ args' = [args EXCEPT ![1] = NoArgs]
  /\ frame' = [frame EXCEPT ![1] = EmptyFrame]
  /\ ret' = [ret EXCEPT ![1] = NoOutput]

snow_user == <<"U","s","e","r"," ">>

\* the member at position i of a group: every third one has no user record,
\* the others a display name in mixed case with white space in it
SnowMember(i) ==
  IF i % 3 = 0 THEN [hasUser |-> FALSE]
  ELSE [hasUser |-> TRUE,
        display_value |-> snow_user \o (IF i % 2 = 0 THEN <<" ">> ELSE <<>>)
                          \o <<String(i)>>]

\* the member lists the group query returns
SnowGroups == {[i \in 1..k |-> SnowMember(i)] : k \in 0..MaxMembers}

SnowAssignmentGroups == {"Platform Ops", "Database Team"}

\* the fetch_snow_stakeholders tool: the group and its members are read and
\* the stakeholders YAML is returned (a failed query throws, nothing is kept)
SnowFetchStakeholders ==
  /\ tool.pc = "idle"
  /\ ~tool.snow.fetched
  /\ \E assignmentGroup \in SnowAssignmentGroups, members \in SnowGroups, ok \in BOOLEAN :
       IF ok
       THEN tool' = [tool EXCEPT !.snow =
              [fetched |-> TRUE, members |-> members,
               stakeholders_yaml |->
                 fetchSnowStakeholders(assignmentGroup, members).stakeholders_yaml]]
       ELSE UNCHANGED tool
  /\ UNCHANGED <<files, core>>

\* snow-runbook, Step 5: generate_runbook is called with the fetched YAML
SnowGenerate ==
  /\ tool.pc = "idle"
  /\ tool.snow.fetched
  /\ \E iy \in ToolIncidentYamls, dir \in {"present", "absent"} :
       tool' = [tool EXCEPT !.pc = "mkdir", !.incident_yaml = iy,
                            !.stakeholders_yaml = tool.snow.stakeholders_yaml,
                            !.outputDir = dir]
  /\ files' = NoFiles
  /\ UNCHANGED core

\* the snow-runbook command: fetch the stakeholders, then generate
NextSnow ==
  \/ SnowFetchStakeholders
  \/ SnowGenerate
  \/ ToolEnsureOutputDir
  \/ ToolParseIncident
  \/ ToolParseStakeholders
  \/ ToolGenerate
  \/ Body(1)
  \/ ToolWriteMarkdown
  \/ ToolWriteDocx
  \/ ToolWriteXlsx
  \/ ToolRespond
  \/ ToolFinish

SpecSnow == Init /\ [][NextSnow]_vars

\* the requests of the tool, one at a time
NextTool ==
  \/ ToolRequest
  \/ ToolEnsureOutputDir
  \/ ToolParseIncident
  \/ ToolParseStakeholders
  \/ ToolGenerate
  \/ Body(1)
  \/ ToolWriteMarkdown
  \/ ToolWriteDocx
  \/ ToolWriteXlsx
  \/ ToolRespond
  \/ ToolFinish

SpecTool == Init /\ [][NextTool]_vars

\* ------------------------------------------------------------------------
\* Properties
\* ------------------------------------------------------------------------

\* ACT-001, ACT-002, ... written out
ExpectedActionIds ==
  << "ACT-001", "ACT-002", "ACT-003", "ACT-004", "ACT-005", "ACT-006",
     "ACT-007", "ACT-008", "ACT-009", "ACT-010", "ACT-011", "ACT-012",
     "ACT-013", "ACT-014", "ACT-015", "ACT-016", "ACT-017", "ACT-018",
     "ACT-019", "ACT-020", "ACT-021", "ACT-022", "ACT-023", "ACT-024",
     "ACT-025", "ACT-026", "ACT-027", "ACT-028", "ACT-029", "ACT-030" >>

HasSequentialIds(items) ==
  /\ Len(items) <= Len(ExpectedActionIds)
  /\ \A i \in 1..Len(items) : items[i].id = ExpectedActionIds[i]

\* C1: in every call of generateRunbook the action ledger, while the section
\* builders append to it and when it is returned, has the ids ACT-001,
\* ACT-002, ..., ACT-NNN in ledger order (3-digit, zero-padded, 1-based), NNN
\* its length: no gap, no repeat, no section builder restarts the counter.
C1_ActionIdsSequential ==
  \A c \in CallIds :
    /\ HasSequentialIds(frame[c].actionItems)
    /\ pc[c] \notin {"idle", "resolve", "emails"}
         => frame[c].actionCounter = Len(frame[c].actionItems) + 1
    /\ ret[c].returned =>
         /\ HasSequentialIds(ret[c].actionItems)
         /\ Len(ret[c].actionItems) > 0

\* C1 witness: a returned ledger whose ids run past ACT-009 into two digits
C1_Witness ==
  /\ ret[1].returned
  /\ Len(ret[1].actionItems) >= 10
  /\ ret[1].actionItems[10].id = "ACT-010"

\* the owners and teams an action item of a call on these arguments can carry
OwnLabels(a) ==
  {a.stakeholders[i].name : i \in 1..Len(a.stakeholders)}
    \cup {a.stakeholders[i].team : i \in 1..Len(a.stakeholders)}
    \cup {"On-Call Engineer", "Operations", "Comms Lead", "Communications",
          "Technical Lead", "Engineering", "IC"}

\* C2: two calls of generateRunbook whose steps interleave in any order (or run
\* one after the other) do not interfere: each call's ledger starts at ACT-001
\* and holds only items of its own section builders (owners and teams from its
\* own stakeholder list), and the locals of a call are a function of its own
\* arguments and position alone - whatever the other call has done.
C2_CallsIndependent ==
  /\ \A c \in CallIds :
       /\ HasSequentialIds(frame[c].actionItems)
       /\ \A i \in 1..Len(frame[c].actionItems) :
            /\ frame[c].actionItems[i].owner \in OwnLabels(args[c])
            /\ frame[c].actionItems[i].team \in OwnLabels(args[c])
       /\ ret[c].returned => ret[c].actionItems = frame[c].actionItems
  /\ \A c, d \in CallIds :
       (args[c] = args[d] /\ pc[c] = pc[d]) => frame[c] = frame[d]

\* C2 witness: both calls are in flight on different arguments, each with items
\* in its ledger, one of them further on than the other
C2_Witness ==
  /\ pc[1] = "s7"
  /\ pc[2] = "s4"
  /\ args[1].stakeholders = <<Alice, Bob>>
  /\ args[2].stakeholders = <<Carol, Dan>>
  /\ Len(frame[1].actionItems) > Len(frame[2].actionItems)
  /\ Len(frame[2].actionItems) > 0

\* C3: for every input the returned sections are exactly 8, with sectionNumber
\* 1, 2, ..., 8 in that order.
C3_EightSectionsInOrder ==
  \A c \in CallIds :
    /\ \A i \in 1..Len(frame[c].sections) : frame[c].sections[i].sectionNumber = i
    /\ ret[c].returned =>
         /\ Len(ret[c].sections) = 8
         /\ \A i \in 1..8 : ret[c].sections[i].sectionNumber = i

\* C3 witness: a call with no stakeholder, no vendor and an unrecognised
\* category has returned
C3_Witness ==
  /\ ret[1].returned
  /\ ret[1].stakeholders = <<>>
  /\ ret[1].vendors = <<>>
  /\ ret[1].incident.category = cat_UnknownWidget
  /\ Len(ret[1].sections) = 8

\* the generator each category of the model must select, written out
ExpectedDiagnosis(category) ==
  CASE category \in {cat_Database, cat_DatabaseOutage, cat_DATABASE, cat_NetworkDatabase}
         -> "Database"
    [] category \in {cat_Network, cat_InfraNetwork} -> "Network"
    [] category \in {cat_Application, cat_ApplicationSecurity} -> "Application"
    [] category \in {cat_CloudInfra, cat_Infrastructure, cat_CloudSecurity} -> "CloudInfra"
    [] category \in {cat_Security} -> "Security"
    [] category \in {cat_UnknownWidget, cat_Other} -> "Generic"

DiagnosisBlocksOf(generator, incident) ==
  CASE generator = "Database"    -> getDatabaseDiagnosisSteps(incident)
    [] generator = "Network"     -> getNetworkDiagnosisSteps(incident)
    [] generator = "Application" -> getApplicationDiagnosisSteps(incident)
    [] generator = "CloudInfra"  -> getCloudInfraDiagnosisSteps(incident)
    [] generator = "Security"    -> getSecurityDiagnosisSteps(incident)
    [] generator = "Generic"     -> getGenericDiagnosisSteps(incident)

\* C4: the category router selects the diagnosis generator by case-insensitive
\* substring match in the priority order database, network, application,
\* cloud or infra, security, generic: "Database", "database outage" and
\* "DATABASE" select the Database generator, a category with two keywords takes
\* the earlier one, a category with none ("Unknown-Widget") the generic one.
C4_RouterSelectsByPriority ==
  \A c \in CallIds :
    Len(frame[c].sections) >= 4 =>
      LET incident == args[c].incident
          blocks   == frame[c].sections[4].blocks
          expected == DiagnosisBlocksOf(ExpectedDiagnosis(incident.category), incident)
      IN  /\ Len(blocks) = 2 + Len(expected) + 3
          /\ SubSeq(blocks, 3, 2 + Len(expected)) = expected

\* C4 witness: Section 4 of an incident of category "DATABASE" is built and
\* carries the Database steps
C4_Witness ==
  /\ Len(frame[1].sections) >= 4
  /\ args[1].incident.category = cat_DATABASE
  /\ frame[1].sections[4].blocks[3].text.tpl = "db.diag.cluster-health"

EmailsWhere(stakeholders, P(_)) ==
  {stakeholders[i].email : i \in {j \in 1..Len(stakeholders) : P(stakeholders[j])}}

ExpectedPhases ==
  << "Initial Incident Notification", "War Room / Bridge Established",
     "30-Minute Status Update", "Mitigation In Progress", "Service Restored",
     "Incident Closed + PIR Invitation" >>

RecipientsFollowRules(T, S) ==
  LET first  == EmailsWhere(S, LAMBDA s : s.escalation_level = 1 \/ s.notify_immediately)
      second == EmailsWhere(S, LAMBDA s : s.escalation_level = 2)
      third  == EmailsWhere(S, LAMBDA s : s.escalation_level = 3)
      all    == EmailsWhere(S, LAMBDA s : TRUE)
  IN  /\ Len(T) = 6
      /\ \A k \in 1..6 : T[k].phase = ExpectedPhases[k]
      /\ \A k \in {1, 2} : Range(T[k].to) = first /\ Range(T[k].cc) = second
      /\ \A k \in {3, 4, 6} : Range(T[k].to) = first \cup second /\ Range(T[k].cc) = third
      /\ Range(T[5].to) = all /\ T[5].cc = <<>>
      /\ S = <<>> => \A k \in 1..6 : T[k].to = <<>> /\ T[k].cc = <<>>
      /\ S = <<Alice, Dan, Frank>> =>
           /\ T[1].to = <<Alice.email>> /\ T[1].cc = <<Dan.email>>
           /\ T[3].to = <<Alice.email, Dan.email>> /\ T[3].cc = <<Frank.email>>
           /\ T[5].to = <<Alice.email, Dan.email, Frank.email>> /\ T[5].cc = <<>>

FirstNamed(S, names) ==
  IF \E i \in 1..Len(S) : S[i].name \in names
  THEN CHOOSE i \in 1..Len(S) :
         /\ S[i].name \in names
         /\ \A j \in 1..Len(S) : S[j].name \in names => i <= j
  ELSE 0

\* who of the people of the model holds which role, whatever the letter case
\* of the role text
IncidentCommanders == {"alice", "gina"}

TechnicalLeads == {"bob", "carol"}

CommunicationsLeads == {"dan"}

\* C6: findByRole gives the first stakeholder in list order whose role contains
\* the keyword case-insensitively, null when there is none; with "Technical
\* Lead (Primary)" before "Technical Lead (Secondary)" the technical lead is
\* the first of the two, and incidentCommander / technicalLead / commsLead of
\* the output are null exactly when no role contains the keyword.
C6_FirstRoleMatch ==
  \A c \in CallIds :
    LET S == args[c].stakeholders
    IN  /\ pc[c] \notin {"idle", "resolve"} =>
             /\ frame[c].ic = FirstNamed(S, IncidentCommanders)
             /\ frame[c].techLead = FirstNamed(S, TechnicalLeads)
             /\ frame[c].commsLead = FirstNamed(S, CommunicationsLeads)
        /\ ret[c].returned =>
             /\ ret[c].incidentCommander = FirstNamed(S, IncidentCommanders)
             /\ ret[c].technicalLead = FirstNamed(S, TechnicalLeads)
             /\ ret[c].commsLead = FirstNamed(S, CommunicationsLeads)
             /\ (ret[c].incidentCommander = 0) <=>
                  (\A i \in 1..Len(S) : S[i].name \notin IncidentCommanders)
             /\ (ret[c].technicalLead = 0) <=>
                  (\A i \in 1..Len(S) : S[i].name \notin TechnicalLeads)
             /\ (ret[c].commsLead = 0) <=>
                  (\A i \in 1..Len(S) : S[i].name \notin CommunicationsLeads)
             /\ (Len(S) >= 2 /\ S[1] = Bob /\ S[2] = Carol) =>
                  S[ret[c].technicalLead] = Bob

\* C6 witness: a returned call whose list has the primary technical lead
\* before the secondary one, a lower-case communications lead, and no
\* incident commander
C6_Witness ==
  /\ ret[1].returned
  /\ ret[1].stakeholders = <<Bob, Carol, Dan>>
  /\ ret[1].technicalLead = 1
  /\ ret[1].commsLead = 3
  /\ ret[1].incidentCommander = 0

ExpectedEscalationIds == << "ESC-001", "ESC-002", "ESC-003", "ESC-004", "ESC-005", "ESC-006", "ESC-007", "ESC-008", "ESC-009" >>

\* C7: for every stakeholder list S the escalation ledger has length |S|; entry
\* i has id ESC-00i, the name and role of the i-th stakeholder and the method
\* "Phone + Slack + Email" if that stakeholder's notify_immediately is true,
\* "Slack + Email" otherwise.
C7_EscalationLedger ==
  \A c \in CallIds :
    ret[c].returned =>
      LET S == ret[c].stakeholders
          E == ret[c].escalationEntries
      IN  /\ Len(E) = Len(S)
          /\ Len(S) <= Len(ExpectedEscalationIds)
          /\ \A i \in 1..Len(E) :
               /\ E[i].id = ExpectedEscalationIds[i]
               /\ E[i].contactName = S[i].name
               /\ E[i].role = S[i].role
               /\ S[i].notify_immediately => E[i].method = "Phone + Slack + Email"
               /\ ~S[i].notify_immediately => E[i].method = "Slack + Email"

\* C7 witness: a returned ledger with an immediate and a non-immediate contact
C7_Witness ==
  /\ ret[1].returned
  /\ ret[1].stakeholders = <<Dan, Alice>>
  /\ Len(ret[1].escalationEntries) = 2
  /\ ret[1].escalationEntries[1].method = "Slack + Email"
  /\ ret[1].escalationEntries[2].method = "Phone + Slack + Email"

IsCriticalAlert(b) == b.type = "alert_box" /\ b.alertLevel = "critical"

IsRootCauseHeading(b) ==
  b.type = "heading" /\ b.text.tpl = "Root Cause Hypothesis Log"

\* C8: when the category is routed to Security, Section 4 has a critical
\* alert_box after every Security diagnosis numbered_step and before the
\* root-cause-hypothesis blocks, and the category-specific blocks of Section 5
\* are exactly the generic containment steps.
C8_SecurityOverride ==
  \A c \in CallIds :
    diagnosisGenerator(args[c].incident.category) = "Security" =>
      /\ Len(frame[c].sections) >= 4 =>
           LET b == frame[c].sections[4].blocks
           IN  \E k \in 1..Len(b) :
                 /\ IsCriticalAlert(b[k])
                 /\ \E j \in 1..(k - 1) : b[j].type = "numbered_step"
                 /\ \A j \in 1..Len(b) : b[j].type = "numbered_step" => j < k
                 /\ \E j \in (k + 1)..Len(b) : IsRootCauseHeading(b[j])
                 /\ \A j \in 1..Len(b) :
                      (IsRootCauseHeading(b[j]) \/ b[j].type = "command") => j > k
      /\ Len(frame[c].sections) >= 5 =>
           LET b == frame[c].sections[5].blocks
           IN  /\ Len(b) = 2 + Len(getGenericContainmentSteps(args[c].incident))
               /\ SubSeq(b, 3, Len(b)) = getGenericContainmentSteps(args[c].incident)

\* C8 witness: Sections 4 and 5 of a Security incident are built
C8_Witness ==
  /\ args[1].incident.category = cat_Security
  /\ Len(frame[1].sections) >= 5
  /\ IsCriticalAlert(frame[1].sections[4].blocks[6])
  /\ frame[1].sections[5].blocks[3].text.tpl = "gen.contain.restart-service"

\* C9: generateRunbook never raises and always gives a fully populated output
\* (8 sections, 6 email templates, the action ledger, the escalation ledger),
\* whichever of IC / Technical Lead / Communications Lead / bridge holder are
\* absent, with empty or non-empty stakeholder and vendor lists, optional
\* incident fields present or not, opened_at parseable or not, category
\* recognised or not; an absent role is replaced by a placeholder label.
C9_NeverRaises ==
  \A c \in CallIds :
    /\ pc[c] # "raised"
    /\ ret[c].returned =>
         LET out == ret[c]
             A   == out.actionItems
         IN  /\ Len(out.sections) = 8
             /\ \A i \in 1..8 : Len(out.sections[i].blocks) > 0
             /\ Len(out.emailTemplates) = 6
             /\ Len(A) > 0
             /\ Len(out.escalationEntries) = Len(out.stakeholders)
             /\ \A i \in 1..Len(A) :
                  A[i].owner \notin {Undefined, ""} /\ A[i].team \notin {Undefined, ""}
             /\ out.incidentCommander = 0 =>
                  /\ \A i \in 1..Len(A) : A[i].phase = "Triage" => A[i].owner = "On-Call Engineer"
                  /\ out.emailTemplates[1].body.icName = "[INCIDENT COMMANDER]"
                  /\ out.emailTemplates[1].body.icPhone = "[PHONE]"
             /\ out.technicalLead = 0 =>
                  \A i \in 1..Len(A) : A[i].phase = "Containment" => A[i].owner = "Technical Lead"
             /\ out.commsLead = 0 =>
                  \A i \in 1..Len(A) : A[i].phase = "Comms" => A[i].owner = "Comms Lead"
             /\ frame[c].bridgeHolder = 0 => out.zoomUrl = "[ZOOM_BRIDGE_URL]"

\* C9 witness: a call with no stakeholder, no vendor, no region, no
\* detected_at, no description and an unparseable opened_at has returned
C9_Witness ==
  /\ ret[1].returned
  /\ ret[1].stakeholders = <<>>
  /\ ret[1].vendors = <<>>
  /\ ret[1].incident.opened_at = TsUnparseable
  /\ ret[1].incident.detected_at = Undefined
  /\ ret[1].incident.region = Undefined
  /\ ret[1].incident.description = ""
  /\ ret[1].zoomUrl = "[ZOOM_BRIDGE_URL]"

\* the channel name each incident number of the model must give, written out
ExpectedSlackChannel(number) ==
  CASE number = num_INC0001 -> <<"#","i","n","c","i","n","c","0","0","0","1">>
    [] number = num_INC_0042 -> <<"#","i","n","c","i","n","c","0","0","4","2">>
    [] number = num_prb7 -> <<"#","i","n","c","p","r","b","7","i","n","c">>

ExpectedBridgeHolder(S) ==
  LET withUrl == {i \in 1..Len(S) : S[i].bridge_url \notin {Undefined, ""}}
  IN  IF withUrl # {}
      THEN CHOOSE i \in withUrl : \A j \in withUrl : i <= j
      ELSE FirstNamed(S, IncidentCommanders)

\* C11: the bridge holder is the first stakeholder in list order with a
\* non-empty bridge_url, else the incident commander, else none; the output
\* zoomUrl is the holder's bridge_url when the holder exists and has a
\* (non-empty) one, and "[ZOOM_BRIDGE_URL]" otherwise, also when the fallback
\* incident commander has no bridge_url and when the list is empty.
C11_BridgeHolderAndZoomUrl ==
  \A c \in CallIds :
    ret[c].returned =>
      LET S == ret[c].stakeholders
          h == ExpectedBridgeHolder(S)
      IN  /\ frame[c].bridgeHolder = h
          /\ ret[c].zoomUrl =
                IF h # 0 /\ S[h].bridge_url \notin {Undefined, ""}
                THEN S[h].bridge_url
                ELSE "[ZOOM_BRIDGE_URL]"

\* the strings the runbook shows in place of a dial-in number
DialInPlaceholders == {"[BRIDGE_DIAL_IN]", "[see stakeholders list]", "[DIAL-IN NUMBER + PIN]"}

\* the dial-in of the bridge holder h of the list S, or no dial-in
HolderDialIn(S, h) ==
  IF h # 0 /\ S[h].bridge_phone # Undefined THEN {S[h].bridge_phone} ELSE DialInPlaceholders

\* the "Dial-in" values Section 2 step 5 of an output shows
Section2DialIns(out) ==
  {out.sections[2].blocks[i].text.dialIn :
     i \in {j \in 1..Len(out.sections[2].blocks) :
              /\ out.sections[2].blocks[j].type = "numbered_step"
              /\ out.sections[2].blocks[j].stepNumber = 5}}

\* C12: the dial-in number the runbook presents, in Section 2 step 5 and in
\* the "Dial-In" line of email Template 2, is the bridge holder's bridge_phone,
\* or a placeholder when the holder is absent or has no bridge_phone; when the
\* holder is not the incident commander it is the holder's, not the
\* commander's.
C12_DialInOfBridgeHolder ==
  \A c \in CallIds :
    ret[c].returned =>
      LET S == ret[c].stakeholders
          h == frame[c].bridgeHolder
      IN  /\ Section2DialIns(ret[c]) # {}
          /\ Section2DialIns(ret[c]) \subseteq HolderDialIn(S, h)
          /\ ret[c].emailTemplates[2].body.dialIn \in HolderDialIn(S, h)

\* the header rows of the tables of a runbook
TableHeaders ==
  { <<"Field", "Value">>,
    <<"Name", "Role", "Slack", "Phone">>,
    <<"Name", "Role", "Notify When", "Method", "Email">>,
    <<"Time Elapsed", "Action", "Escalate To", "Contact Method">>,
    <<"Name", "Role", "Escalation Level", "Phone", "Email", "Slack">>,
    <<"Vendor", "Account Number", "Support URL", "Phone", "Severity to Declare">>,
    <<"Condition", "Action">> }

\* the table blocks of a sequence of sections
TablesOf(sections) ==
  UNION {{sections[i].blocks[j] :
            j \in {k \in 1..Len(sections[i].blocks) : sections[i].blocks[k].type = "table"}} :
         i \in 1..Len(sections)}

RectangularUnderHeader(table) ==
  /\ Len(table.rows) >= 1
  /\ table.rows[1] \in TableHeaders
  /\ \A r \in 1..Len(table.rows) : Len(table.rows[r]) = Len(table.rows[1])

\* C13: in every table block of every section generateRunbook builds, for
\* every input (any number of stakeholders and vendors, zero included), the
\* first row is a header row and every other row has as many cells as it.
C13_TablesRectangular ==
  \A c \in CallIds :
    /\ \A t \in TablesOf(frame[c].sections) : RectangularUnderHeader(t)
    /\ ret[c].returned =>
         /\ Cardinality(TablesOf(ret[c].sections)) >= 6
         /\ \A t \in TablesOf(ret[c].sections) : RectangularUnderHeader(t)

\* C13 witness: a returned runbook for three stakeholders and a vendor, whose
\* role map, contact and vendor tables have data rows
C13_Witness ==
  /\ ret[1].returned
  /\ Len(ret[1].stakeholders) = 3
  /\ Len(ret[1].vendors) = 1
  /\ \E t \in TablesOf(ret[1].sections) :
       t.rows[1] = <<"Vendor", "Account Number", "Support URL", "Phone",
                     "Severity to Declare">> /\ Len(t.rows) = 2
  /\ \E t \in TablesOf(ret[1].sections) :
       t.rows[1] = <<"Name", "Role", "Escalation Level", "Phone", "Email", "Slack">>
       /\ Len(t.rows) = 4
  /\ \E t \in TablesOf(ret[1].sections) :
       t.rows[1] = <<"Name", "Role", "Notify When", "Method", "Email">> /\ Len(t.rows) = 4

\* the branch actions that escalate when no root cause was found
EscalateActions ==
  { "Escalate: page vendor support (see Section 6) and senior DBA now",
    "Escalate to Senior Network Engineer and vendor (Section 6)",
    "Escalate to senior engineer; consider blue/green failover (Section 5, Step 4)",
    "Escalate to cloud architect; open cloud provider P1 case (Section 6)" }

\* the blocks of Section 4 that the selected diagnosis generator returned:
\* what lies between the two opening blocks and the three root-cause blocks
RoutedDiagnosisBlocks(section4) == SubSeq(section4.blocks, 3, Len(section4.blocks) - 3)

EndsInOneDecisionTree(D) ==
  /\ Len(D) >= 2
  /\ \A k \in 1..(Len(D) - 1) : D[k].type = "numbered_step"
  /\ D[Len(D)].type = "decision_tree"
  /\ \E k \in 1..Len(D[Len(D)].branches) : D[Len(D)].branches[k].action \in EscalateActions

\* C14: the block sequence of each of the six diagnosis generators (Database,
\* Network, Application, Cloud/Infra, Security, Generic) is numbered_step
\* blocks followed by exactly one decision_tree block, its last block, whose
\* branches include an explicit default "no root cause found -> escalate"
\* branch.
C14_DiagnosisEndsInDecisionTree ==
  \A c \in CallIds :
    Len(frame[c].sections) >= 4 =>
      EndsInOneDecisionTree(RoutedDiagnosisBlocks(frame[c].sections[4]))

VendorHeader == <<"Vendor", "Account Number", "Support URL", "Phone", "Severity to Declare">>

\* C15: Section 6 has the vendor sub-table (the heading "Vendor / Third-Party
\* Escalation" and a table with one row per vendor in list order under a
\* 5-column header) if and only if the vendor list is non-empty; with an empty
\* vendor list it is exactly the paragraph, the time-threshold table, the
\* contacts heading and the per-contact table.
C15_VendorSubTable ==
  \A c \in CallIds :
    Len(frame[c].sections) >= 6 =>
      LET b == frame[c].sections[6].blocks
          V == args[c].vendors
      IN  /\ Len(b) >= 4
          /\ b[1].type = "paragraph"
          /\ b[2].type = "table" /\ b[2].rows[1][1] = "Time Elapsed"
          /\ b[3].type = "heading" /\ b[3].text.tpl = "Individual Escalation Contacts"
          /\ b[4].type = "table" /\ b[4].rows[1][1] = "Name"
          /\ V = <<>> => Len(b) = 4
          /\ V # <<>> =>
               /\ Len(b) = 6
               /\ b[5].type = "heading"
               /\ b[5].text.tpl = "Vendor / Third-Party Escalation"
               /\ b[6].type = "table"
               /\ b[6].rows[1] = VendorHeader
               /\ Len(b[6].rows) = 1 + Len(V)
               /\ \A k \in 1..Len(V) :
                    b[6].rows[k + 1] = <<V[k].vendor, V[k].account_number, V[k].support_url,
                                         V[k].phone, V[k].severity_mapping>>

\* C15 witness: a returned runbook for two vendors, whose Section 6 ends with
\* the vendor table, the second vendor in its last row
C15_Witness ==
  /\ ret[1].returned
  /\ Len(ret[1].vendors) = 2
  /\ Len(ret[1].sections[6].blocks) = 6
  /\ ret[1].sections[6].blocks[6].rows[3][1] = ret[1].vendors[2].vendor
  /\ ret[1].vendors[1].vendor # ret[1].vendors[2].vendor

\* the Section 2 stakeholder table of an output: the last block of Section 2
Section2Table(out) == out.sections[2].blocks[Len(out.sections[2].blocks)]

\* C16: in the output generateRunbook returns, the Section 2 stakeholder
\* table is the header row and the three literal placeholder rows
\* ([IC_NAME], [TECH_LEAD_NAME], [COMMS_LEAD_NAME] with their slack and phone
\* placeholders) for every stakeholder list: no stakeholder data is put in it.
C16_Section2PlaceholdersKept ==
  \A c \in CallIds :
    ret[c].returned =>
      /\ Section2Table(ret[c]).type = "table"
      /\ Section2Table(ret[c]).rows =
           << <<"Name", "Role", "Slack", "Phone">>,
              <<"[IC_NAME]", "Incident Commander", "[IC_SLACK]", "[IC_PHONE]">>,
              <<"[TECH_LEAD_NAME]", "Technical Lead", "[TECH_SLACK]", "[TECH_PHONE]">>,
              <<"[COMMS_LEAD_NAME]", "Communications Lead", "[COMMS_SLACK]",
                "[COMMS_PHONE]">> >>
      /\ \A t \in TablesOf(<<ret[c].sections[2]>>) : t = Section2Table(ret[c])

\* C16 witness: a returned runbook whose list names an incident commander and
\* a technical lead, both notified immediately, and whose Section 2 table
\* still starts with the [IC_NAME] row
C16_Witness ==
  /\ ret[1].returned
  /\ ret[1].stakeholders = <<Alice, Bob>>
  /\ ret[1].incidentCommander = 1
  /\ ret[1].technicalLead = 2
  /\ Section2Table(ret[1]).rows[2][1] = "[IC_NAME]"

\* C18: a stakeholder with escalation_level 3 appears only in the CC list, and
\* only on Templates 3 to 6: it is never in the To list of the initial alert
\* (Template 1) nor of any other template, whatever its notify_immediately.
C18_Level3OnlyInCc ==
  \A c \in CallIds :
    ret[c].returned =>
      LET S == ret[c].stakeholders
          T == ret[c].emailTemplates
      IN  \A i \in 1..Len(S) :
            S[i].escalation_level = 3 =>
              \A k \in 1..Len(T) :
                /\ S[i].email \notin Range(T[k].to)
                /\ S[i].email \in Range(T[k].cc) => k \in 3..6

\* the fields of an output that the arguments alone determine
DeterminedFields(out) ==
  [sections |-> out.sections, emailTemplates |-> out.emailTemplates,
   actionItems |-> out.actionItems, escalationEntries |-> out.escalationEntries,
   slackChannel |-> out.slackChannel, zoomUrl |-> out.zoomUrl,
   incidentCommander |-> out.incidentCommander, technicalLead |-> out.technicalLead,
   commsLead |-> out.commsLead]

\* C19: generateRunbook is deterministic: two calls with equal (incident,
\* stakeholders, vendors) return outputs equal in sections, emailTemplates,
\* actionItems, escalationEntries, slackChannel, zoomUrl and the three
\* resolved roles, whatever the clock read at each return and whatever calls
\* ran before or in between.
C19_Deterministic ==
  \A c, d \in CallIds :
    (/\ ret[c].returned /\ ret[d].returned
     /\ ret[c].incident = ret[d].incident
     /\ ret[c].stakeholders = ret[d].stakeholders
     /\ ret[c].vendors = ret[d].vendors)
    => DeterminedFields(ret[c]) = DeterminedFields(ret[d])

\* C19 witness: two calls with the same arguments, an incident commander
\* among them, have returned at different clock readings
C19_Witness ==
  /\ ret[1].returned /\ ret[2].returned
  /\ ret[1].incident = ret[2].incident
  /\ ret[1].stakeholders = <<Alice, Bob>>
  /\ ret[2].stakeholders = <<Alice, Bob>>
  /\ ret[1].generatedAt # ret[2].generatedAt
  /\ ret[1].actionItems = ret[2].actionItems
  /\ Len(ret[1].actionItems) = 23

\* the rows of a Section 2 stakeholder table that has been resolved: the header
\* row, then one row per immediate-notify stakeholder in list order
ResolvedSection2Rows(S) ==
  << <<"Name", "Role", "Slack", "Phone">> >>
  \o Map(SelectSeq(S, LAMBDA s : s.notify_immediately \/ s.escalation_level = 1),
         LAMBDA s : <<s.name, s.role, s.slack, s.phone>>)

\* the rows of the Section 2 stakeholder table in the markdown file: the table
\* lines of the last block of the section, the separator line left out
MarkdownSection2Rows(md) ==
  LET blocks == md.sections[2].blocks
      lines == SelectSeq(blocks[Len(blocks)], LAMBDA l : l.md = "row")
  IN  <<lines[1].cells>> \o [k \in 1..(Len(lines) - 2) |-> lines[k + 2].cells]

\* the rows of the Section 2 stakeholder table in the Word document
WordSection2Rows(doc) ==
  LET nodes == doc.sections[2].nodes
      table == nodes[Len(nodes)][1]
  IN  [r \in 1..Len(table.rows) |-> table.rows[r].cells]

\* C17: in the final output of every renderer the Section 2 stakeholder table
\* is the header row followed by one row per immediate-notify stakeholder
\* (notify_immediately true or escalation level 1, in list order) and holds
\* none of the bracketed placeholder rows; this is so in the markdown file
\* runbookToMarkdown produces and in the Word document buildDocumentChildren
\* produces.
C17_RenderersResolveSection2 ==
  /\ files.md.written =>
       MarkdownSection2Rows(files.md.content) = ResolvedSection2Rows(ret[1].stakeholders)
  /\ files.docx.written =>
       WordSection2Rows(files.docx.content) = ResolvedSection2Rows(ret[1].stakeholders)

\* the Word half of C17 alone
WordResolvesSection2 ==
  files.docx.written =>
    WordSection2Rows(files.docx.content) = ResolvedSection2Rows(ret[1].stakeholders)

\* the markdown file keeps the rows generateRunbook put in the block
MarkdownKeepsSection2 ==
  files.md.written =>
    MarkdownSection2Rows(files.md.content) = Section2Table(ret[1]).rows

\* C20: the generate_runbook tool validates before it generates. The
\* stakeholders YAML is parsed only after the incident YAML was parsed without
\* errors; once the incident YAML has an error the stakeholders YAML stays
\* unparsed and the result is an isError result carrying the incident errors;
\* once the stakeholders YAML has an error the result is an isError result
\* carrying those errors; in both cases generateRunbook is not called and no
\* .md, .docx or .xlsx file is written. With no errors, warnings do not stop
\* the handler: generateRunbook is called on the parsed data and a success
\* result carries the warnings of both parses.
C20_ValidatesBeforeGenerating ==
  /\ tool.stResult.parsed =>
       tool.incResult.parsed /\ Len(tool.incResult.errors) = 0
  /\ Len(tool.incResult.errors) > 0 =>
       /\ ~tool.stResult.parsed
       /\ tool.pc = "responded"
       /\ tool.response.isError
       /\ tool.response.body.error = "Incident YAML validation failed"
       /\ tool.response.body.errors = tool.incResult.errors
       /\ pc[1] = "idle"
       /\ files = NoFiles
  /\ Len(tool.stResult.errors) > 0 =>
       /\ tool.pc = "responded"
       /\ tool.response.isError
       /\ tool.response.body.error = "Stakeholders YAML validation failed"
       /\ tool.response.body.errors = tool.stResult.errors
       /\ pc[1] = "idle"
       /\ files = NoFiles
  /\ (pc[1] # "idle" \/ files # NoFiles) =>
       /\ tool.incResult.parsed /\ Len(tool.incResult.errors) = 0
       /\ tool.stResult.parsed /\ Len(tool.stResult.errors) = 0
  /\ (tool.stResult.parsed /\ Len(tool.stResult.errors) = 0) =>
       /\ tool.pc \in {"generate", "generating", "docx", "xlsx", "respond", "responded"}
       /\ tool.pc # "generate" =>
            /\ pc[1] # "idle"
            /\ args[1].incident = tool.incResult.data
            /\ args[1].stakeholders = tool.stResult.data.stakeholders
       /\ tool.pc = "responded" =>
            IF tool.response.isError
            THEN tool.response.body.errors = <<>>
            ELSE /\ files.md.written /\ files.docx.written /\ files.xlsx.written
                 /\ tool.response.body.warnings =
                      tool.incResult.warnings \o tool.stResult.warnings

\* C20 witness: a request whose two YAML texts are both invalid has been
\* answered with the incident errors, the stakeholders YAML never parsed
C20_Witness ==
  /\ tool.pc = "responded"
  /\ Len(tool.incResult.errors) = 2
  /\ Len(parseStakeholdersYaml(tool.stakeholders_yaml).errors) > 0
  /\ ~tool.stResult.parsed
  /\ tool.response.isError
  /\ tool.response.body.errors = tool.incResult.errors
  /\ files = NoFiles

\* a request with warnings in both parses and no error has been answered with
\* a success result and its three files
WarningsDoNotBlock ==
  /\ tool.pc = "responded"
  /\ ~tool.response.isError
  /\ Len(tool.incResult.warnings) > 0
  /\ Len(tool.stResult.warnings) > 0
  /\ files.xlsx.written

\* the stakeholders the handler got out of the fetched YAML
FetchedStakeholders == tool.stResult.data.stakeholders

\* the roles, levels and notify flags fetchSnowStakeholders gives by position
SnowShape(S) ==
  /\ Len(S) <= 6
  /\ \A i \in 1..Len(S) :
       /\ S[i].role = (IF i = 1 THEN <<"I","n","c","i","d","e","n","t"," ",
                                       "C","o","m","m","a","n","d","e","r">>
                       ELSE IF i = 2 THEN <<"T","e","c","h","n","i","c","a","l"," ",
                                            "L","e","a","d">>
                       ELSE <<"O","n","-","C","a","l","l"," ",
                              "E","n","g","i","n","e","e","r">>)
       /\ S[i].escalation_level = (IF i <= 2 THEN 1 ELSE 2)
       /\ S[i].notify_immediately = (i <= 2)

\* C21: the stakeholders YAML fetchSnowStakeholders returns can be used as it
\* is: once generate_runbook has parsed it there is no error, generation is
\* reached, and the parsed list has at most 6 stakeholders, the first an
\* Incident Commander, the second a Technical Lead, the others On-Call
\* Engineers, the first two at level 1 with notify_immediately true, the others
\* at level 2 with it false.
C21_FetchedStakeholdersUsable ==
  (tool.snow.fetched /\ tool.stResult.parsed) =>
     /\ Len(tool.stResult.errors) = 0
     /\ tool.pc \in {"generate", "generating", "docx", "xlsx", "respond", "responded"}
     /\ Len(FetchedStakeholders) =
          (IF Len(tool.snow.members) < 6 THEN Len(tool.snow.members) ELSE 6)
     /\ SnowShape(FetchedStakeholders)

\* the shape of the fetched list alone, read from the YAML text
SnowShapeHolds ==
  tool.snow.fetched =>
    SnowShape(Map(tool.snow.stakeholders_yaml.items, LAMBDA item : item.fields))

\* only the YAML of a group without members passes the validation
SnowOnlyEmptyGroupPasses ==
  (tool.snow.fetched /\ tool.stResult.parsed) =>
     (Len(tool.stResult.errors) = 0 <=> tool.snow.members = <<>>)

\* the phases of the full ledger, in section-build order
LedgerPhases ==
  << "Triage", "Triage", "Triage", "Triage",
     "Comms", "Comms", "Comms", "Comms",
     "Diagnosis", "Diagnosis", "Diagnosis", "Diagnosis",
     "Containment", "Containment", "Containment",
     "Resolution", "Resolution", "Resolution", "Resolution", "Resolution",
     "Resolution", "Resolution", "Resolution" >>

\* the number of items in the ledger when a call is at the step named
LedgerLengthAt(step) ==
  CASE step \in {"idle", "resolve", "emails", "s1", "s2"} -> 0
    [] step = "s3" -> 4
    [] step = "s4" -> 8
    [] step = "s5" -> 12
    [] step \in {"s6", "s7"} -> 15
    [] step = "s8" -> 20
    [] OTHER -> 23

LedgerHasShape(items, length) ==
  /\ Len(items) = length
  /\ \A i \in 1..Len(items) :
       items[i].phase = LedgerPhases[i] /\ items[i].status = "Open"

LedgerShapeKept ==
  \A c \in CallIds :
    /\ LedgerHasShape(frame[c].actionItems, LedgerLengthAt(pc[c]))
    /\ ret[c].returned => LedgerHasShape(ret[c].actionItems, 23)

LedgerOnlyAppended ==
  \A c \in CallIds :
    \/ pc'[c] \in {"idle", "resolve"}
    \/ /\ Len(frame'[c].actionItems) >= Len(frame[c].actionItems)
       /\ SubSeq(frame'[c].actionItems, 1, Len(frame[c].actionItems))
            = frame[c].actionItems
       /\ ret'[c].returned => ret'[c].actionItems = frame[c].actionItems

\* C22: for every input the action ledger has one shape: 4 Triage items after
\* Section 2, 4 Comms after Section 3, 4 Diagnosis after Section 4, 3
\* Containment after Section 5, none from Sections 1 and 6, 5 Resolution after
\* Section 7 and 3 Resolution after Section 8, 23 in all in that order, each
\* with status "Open"; a step of a call only appends to the ledger: the items
\* already in it keep their place and their content, and the returned ledger
\* is the one the builders left.
C22_LedgerShape == []LedgerShapeKept /\ [][LedgerOnlyAppended]_vars

\* C22 witness: a call on an empty stakeholder list and a Security incident
\* has returned its 23 items
C22_Witness ==
  /\ ret[1].returned
  /\ ret[1].stakeholders = <<>>
  /\ ret[1].incident.category = cat_Security
  /\ Len(ret[1].actionItems) = 23
  /\ ret[1].actionItems[13].phase = "Containment"
  /\ ret[1].actionItems[23].phase = "Resolution"

\* parseIncidentYaml has warned that the category is not a standard one and
\* that generic investigation steps will be used
CategoryWarned ==
  /\ tool.incResult.parsed
  /\ \E k \in 1..Len(tool.incResult.warnings) :
       tool.incResult.warnings[k].field = "incident.category"

\* C23: the category warning of the validator and the router agree: when
\* parseIncidentYaml has emitted "Category ... is not a standard category ...
\* Generic investigation steps will be used" for the incident of a request, the
\* Section 4 that generateRunbook builds for it carries the generic diagnosis
\* steps and its Section 5 the generic containment steps: no category that
\* triggers the warning is routed to a specialised generator.
C23_WarningAgreesWithRouter ==
  CategoryWarned =>
    /\ Len(frame[1].sections) >= 4 =>
         RoutedDiagnosisBlocks(frame[1].sections[4])
           = getGenericDiagnosisSteps(args[1].incident)
    /\ Len(frame[1].sections) >= 5 =>
         SubSeq(frame[1].sections[5].blocks, 3, Len(frame[1].sections[5].blocks))
           = getGenericContainmentSteps(args[1].incident)

\* the warning and the router agree on the categories without a keyword
WarningAgreesWithoutKeyword ==
  (CategoryWarned /\ Len(frame[1].sections) >= 4
     /\ args[1].incident.category # cat_DatabaseOutage) =>
       RoutedDiagnosisBlocks(frame[1].sections[4])
         = getGenericDiagnosisSteps(args[1].incident)

\* a trimmed line of a step text that opens or closes a code block
isFenceLine(line) == startsWith(lineStart(line), "~~~")

\* the paragraphs of the lines of a step text from position i on when the
\* fences are followed: a fence line gives nothing and turns the code block on
\* or off, a non-empty line inside the code block is command text, and a line
\* outside it is command text only when it begins with a command word
RECURSIVE fencedLineNodes(_, _, _)
fencedLineNodes(lines, i, inFence) ==
  IF i > Len(lines) THEN <<>>
  ELSE LET line == trim(lines[i])
       IN  IF isFenceLine(line) THEN fencedLineNodes(lines, i + 1, ~inFence)
           ELSE IF isEmptyLine(line) THEN fencedLineNodes(lines, i + 1, inFence)
           ELSE <<[node |-> "Paragraph",
                   style |-> IF inFence \/ isCommandLine(line)
                             THEN "command" ELSE "indented",
                   line |-> line]>>
                \o fencedLineNodes(lines, i + 1, inFence)

\* the numbered steps of a runbook as pairs <<section, block>>
NumberedSteps(rb) ==
  UNION {{<<i, k>> : k \in {b \in 1..Len(rb.sections[i].blocks) :
                              rb.sections[i].blocks[b].type = "numbered_step"}} :
         i \in 1..Len(rb.sections)}

\* C24: in the Word document every numbered step is its heading line followed
\* by its other lines rendered along the code fences: every non-empty line
\* between an opening and a closing fence is preformatted command text, a line
\* of ordinary prose outside a fence is not, and the fence lines themselves
\* give no paragraph.
C24_CommandLinesPreformatted ==
  files.docx.written =>
    \A p \in NumberedSteps(ret[1]) :
       LET lines == stepLines(ret[1].sections[p[1]].blocks[p[2]].text)
       IN  files.docx.content.sections[p[1]].nodes[p[2]]
             = <<[node |-> "Paragraph", style |-> "step", line |-> lines[1]]>>
               \o fencedLineNodes(lines, 2, FALSE)

\* what the Word builder does keep: a fence line gives no paragraph, and a line
\* that is rendered as command text is inside a fence or begins with a command
\* word
FenceLinesGiveNothing ==
  files.docx.written =>
    \A p \in NumberedSteps(ret[1]) :
       LET nodes == files.docx.content.sections[p[1]].nodes[p[2]]
       IN  \A k \in 1..Len(nodes) :
              /\ ~isFenceLine(nodes[k].line)
              /\ nodes[k].style = "command" => isCommandLine(nodes[k].line)

\* the step numbers N that a text names as "Section 5, Step N"
section5Refs(str) ==
  LET prefix == "Section 5, Step "
  IN  {n \in 1..9 :
         \E i \in 1..Len(str) :
            /\ i + Len(prefix) <= Len(str)
            /\ SubSeq(str, i, i + Len(prefix)) = prefix \o DigitChar[n + 1]}

\* the literal text of a line of a step
lineTexts(line) == {line.lead} \cup {line.rest[k].after : k \in 1..Len(line.rest)}

\* the Section 5 steps a block of Section 4 refers to: in the actions of the
\* branches of a decision tree and in the text of a numbered step
blockSection5Refs(block) ==
  IF block.type = "decision_tree"
  THEN UNION {section5Refs(block.branches[k].action) : k \in 1..Len(block.branches)}
  ELSE IF block.type = "numbered_step"
  THEN UNION {UNION {section5Refs(t) : t \in lineTexts(l)} : l \in Range(stepLines(block.text))}
  ELSE {}

\* the number of numbered steps of a section
numberedStepCount(section) ==
  Cardinality({k \in 1..Len(section.blocks) : section.blocks[k].type = "numbered_step"})

\* C25: every containment step that Section 4 refers to exists in Section 5 of
\* the same runbook: each "Section 5, Step N" in a branch action of the decision
\* tree or in the text of a diagnosis step has N between 1 and the number of
\* numbered steps of Section 5.
C25_ReferencedStepsExist ==
  \A c \in CallIds :
    Len(frame[c].sections) >= 5 =>
      \A k \in 1..Len(frame[c].sections[4].blocks) :
         blockSection5Refs(frame[c].sections[4].blocks[k])
           \subseteq 1..numberedStepCount(frame[c].sections[5])

\* the channel names that the steps of a runbook with one of the given
\* templates write
StepChannels(rb, tpls) ==
  {rb.sections[p[1]].blocks[p[2]].text.channel :
     p \in {q \in NumberedSteps(rb) :
              rb.sections[q[1]].blocks[q[2]].text.tpl \in tpls}}

\* the channel names that the email templates of a runbook write
EmailChannels(rb) ==
  {rb.emailTemplates[k].body.slackChannel :
     k \in {j \in 1..Len(rb.emailTemplates) :
              "slackChannel" \in DOMAIN rb.emailTemplates[j].body}}

\* C26: one runbook names one incident chat channel: the channel written into
\* Section 3 (Slack Communication Steps, step 1) and into Section 7 (closing
\* the bridge, step 2) is the channel of Section 2 step 4, of the email
\* templates and of the output field slackChannel.
C26_OneChannelName ==
  \A c \in CallIds :
    ret[c].returned =>
      StepChannels(ret[c], {"s2.slack", "s3.create", "s7.post-resolved"})
        \cup EmailChannels(ret[c]) = {ret[c].slackChannel}

\* Section 2 step 4 and the email templates do name the channel of the output
\* field slackChannel
Section2AndEmailsNameSlackChannel ==
  \A c \in CallIds :
    ret[c].returned =>
      /\ StepChannels(ret[c], {"s2.slack"}) = {ret[c].slackChannel}
      /\ EmailChannels(ret[c]) = {ret[c].slackChannel}
      /\ Cardinality(StepChannels(ret[c], {"s3.create", "s7.post-resolved"})) = 1

\* no element occurs twice in a list
NoDuplicates(xs) == \A i, j \in 1..Len(xs) : i # j => xs[i] # xs[j]

\* C27: in each of the six email templates every address occurs at most once:
\* the To list has no duplicate, the Cc list has no duplicate and no address is
\* in both, for every stakeholder list with distinct addresses, also one with a
\* level 2 or level 3 stakeholder that is notified immediately.
C27_AddressOncePerTemplate ==
  \A c \in CallIds :
    ret[c].returned =>
      \A k \in 1..Len(ret[c].emailTemplates) :
         NoDuplicates(ret[c].emailTemplates[k].to \o ret[c].emailTemplates[k].cc)

\* the addresses are unique in every template when notify_immediately is set
\* on level 1 stakeholders only
AddressOnceWithoutImmediateAboveLevel1 ==
  \A c \in CallIds :
    (ret[c].returned
       /\ \A i \in 1..Len(ret[c].stakeholders) :
             ret[c].stakeholders[i].notify_immediately
               => ret[c].stakeholders[i].escalation_level = 1) =>
      \A k \in 1..Len(ret[c].emailTemplates) :
         NoDuplicates(ret[c].emailTemplates[k].to \o ret[c].emailTemplates[k].cc)

\* no file of the request is on disk
NoFileWritten == ~files.md.written /\ ~files.docx.written /\ ~files.xlsx.written

AllFilesWritten == files.md.written /\ files.docx.written /\ files.xlsx.written

AnsweredRequestLeaves ==
  /\ tool.pc = "responded" =>
       IF tool.response.isError
       THEN /\ ~files.xlsx.written
            /\ files.docx.written => files.md.written
            /\ (~tool.stResult.parsed \/ Len(tool.stResult.errors) > 0 \/ pc[1] = "raised")
                 => NoFileWritten
       ELSE AllFilesWritten
  /\ tool.incResult.parsed => tool.outputDir \in {"present", "made"}

\* a step that fails removes nothing: the files written before it stay
FailedStepKeepsFiles ==
  (tool.pc \in {"generating", "docx", "xlsx"} /\ tool'.pc = "responded")
    => files' = files

TimeThresholdTable(section6) == section6.blocks[2]

\* C29: in the time-threshold table of Section 6 the "Escalate To" cell of
\* every row is non-empty for every stakeholder list: the names at the level of
\* the row, or a fallback label when no stakeholder has that level.
C29_EscalateToNeverEmpty ==
  \A c \in CallIds :
    Len(frame[c].sections) >= 6 =>
      LET rows == TimeThresholdTable(frame[c].sections[6]).rows
      IN  /\ rows[1][3] = "Escalate To"
          /\ \A r \in 2..Len(rows) : rows[r][3] # ""

\* the rows after T+15 do have a non-empty cell, and the T+15 row has one
\* whenever a stakeholder is at level 1
EscalateToEmptyOnlyWithoutLevel1 ==
  \A c \in CallIds :
    Len(frame[c].sections) >= 6 =>
      LET rows == TimeThresholdTable(frame[c].sections[6]).rows
      IN  /\ \A r \in 3..Len(rows) : rows[r][3] # ""
          /\ rows[2][3] = "" <=>
               \A i \in 1..Len(args[c].stakeholders) :
                  args[c].stakeholders[i].escalation_level # 1

\* the blocks of Section 5 that the selected containment generator returned:
\* what follows the two opening blocks
RoutedContainmentBlocks(section5) == SubSeq(section5.blocks, 3, Len(section5.blocks))

\* the diagnosis blocks D and the containment blocks C of one runbook come
\* from generators of the same family, generic containment going with the
\* Security and the Generic diagnosis
SameFamily(D, C, incident) ==
  /\ D = getDatabaseDiagnosisSteps(incident) => C = getDatabaseContainmentSteps(incident)
  /\ D = getNetworkDiagnosisSteps(incident) => C = getNetworkContainmentSteps(incident)
  /\ D = getApplicationDiagnosisSteps(incident)
       => C = getApplicationContainmentSteps(incident)
  /\ D = getCloudInfraDiagnosisSteps(incident)
       => C = getCloudInfraContainmentSteps(incident)
  /\ D = getSecurityDiagnosisSteps(incident) => C = getGenericContainmentSteps(incident)
  /\ D = getGenericDiagnosisSteps(incident) => C = getGenericContainmentSteps(incident)
  /\ \/ D = getDatabaseDiagnosisSteps(incident)
     \/ D = getNetworkDiagnosisSteps(incident)
     \/ D = getApplicationDiagnosisSteps(incident)
     \/ D = getCloudInfraDiagnosisSteps(incident)
     \/ D = getSecurityDiagnosisSteps(incident)
     \/ D = getGenericDiagnosisSteps(incident)

\* C30: the two category dispatches agree: for every category the containment
\* steps of Section 5 come from the generator of the same family as the
\* diagnosis steps of Section 4 (Database, Network, Application, Cloud/Infra,
\* Generic), except that a category routed to the Security diagnosis gets the
\* generic containment steps.
C30_DispatchesAgree ==
  \A c \in CallIds :
    Len(frame[c].sections) >= 5 =>
      /\ SameFamily(RoutedDiagnosisBlocks(frame[c].sections[4]),
                    RoutedContainmentBlocks(frame[c].sections[5]), args[c].incident)
      /\ containmentGenerator(args[c].incident.category)
           = IF diagnosisGenerator(args[c].incident.category) = "Security"
             THEN "Generic"
             ELSE diagnosisGenerator(args[c].incident.category)

\* C30 witness: a call for a category with two keywords, "Infra Network", has
\* built Section 5 with the Network containment steps after the Network
\* diagnosis steps of Section 4
C30_Witness ==
  /\ Len(frame[1].sections) >= 5
  /\ args[1].incident.category = cat_InfraNetwork
  /\ RoutedDiagnosisBlocks(frame[1].sections[4])
       = getNetworkDiagnosisSteps(args[1].incident)
  /\ RoutedContainmentBlocks(frame[1].sections[5])
       = getNetworkContainmentSteps(args[1].incident)

\* the exception of C30 is reached: a Security diagnosis with generic containment
SecurityGetsGenericContainment ==
  \A c \in CallIds :
    (Len(frame[c].sections) >= 5 /\ args[c].incident.category = cat_Security) =>
      /\ RoutedDiagnosisBlocks(frame[c].sections[4])
           = getSecurityDiagnosisSteps(args[c].incident)
      /\ RoutedContainmentBlocks(frame[c].sections[5])
           = getGenericContainmentSteps(args[c].incident)

====
